---- MODULE Spec2Model ----
(***************************************************************************)
(* Model of the image organizer: the useImageOrganizer hook (batch         *)
(* processor) and the UnifiedAIEngine (analysis orchestrator, categorizer  *)
(* and duplicate grouper) of src/src/hooks/use-image-organizer.ts.         *)
(*                                                                         *)
(* Asynchronous functions are cut at their await points: one action per    *)
(* synchronous stretch of code.  React state is modelled by its committed  *)
(* value; a callback reads the state of the render it is called from.      *)
(***************************************************************************)
EXTENDS Integers, Sequences, FiniteSets, TLC

(***************************************************************************)
(* Bounds of the model                                                     *)
(***************************************************************************)
MaxImages == 3
MaxRuns == 2
MaxEngineCalls == 2
HashSide == 2

(***************************************************************************)
(* Strings.  The code tests file names and labels with toLowerCase() and   *)
(* includes(); a string is decoded to its characters and the tests are     *)
(* computed on the characters.                                             *)
(***************************************************************************)
Chars(s) ==
  CASE s = "IMG_1.jpg"    -> <<"I","M","G","_","1",".","j","p","g">>
    [] s = "Selfie.png"   -> <<"S","e","l","f","i","e",".","p","n","g">>
    [] s = "broken.jpg"   -> <<"b","r","o","k","e","n",".","j","p","g">>
    [] s = "blank.svg"    -> <<"b","l","a","n","k",".","s","v","g">>
    [] s = "notes.txt"    -> <<"n","o","t","e","s",".","t","x","t">>
    [] s = "person"       -> <<"p","e","r","s","o","n">>
    [] s = "selfie"       -> <<"s","e","l","f","i","e">>
    [] s = "portrait"     -> <<"p","o","r","t","r","a","i","t">>
    [] s = "screenshot"   -> <<"s","c","r","e","e","n","s","h","o","t">>
    [] s = "document"     -> <<"d","o","c","u","m","e","n","t">>
    [] s = "food"         -> <<"f","o","o","d">>
    [] s = "nature"       -> <<"n","a","t","u","r","e">>
    [] s = "image"        -> <<"i","m","a","g","e">>
    [] s = "Landscape"    -> <<"L","a","n","d","s","c","a","p","e">>
    [] s = "landscape"    -> <<"l","a","n","d","s","c","a","p","e">>
    [] s = "screen"       -> <<"s","c","r","e","e","n">>
    [] s = "computer"     -> <<"c","o","m","p","u","t","e","r">>
    [] s = "mountain"     -> <<"m","o","u","n","t","a","i","n">>
    [] s = "beach"        -> <<"b","e","a","c","h">>
    [] s = "meal"         -> <<"m","e","a","l">>
    [] s = "dish"         -> <<"d","i","s","h">>
    [] s = "art"          -> <<"a","r","t">>
    [] s = "painting"     -> <<"p","a","i","n","t","i","n","g">>
    [] s = "pet"          -> <<"p","e","t">>
    [] s = "animal"       -> <<"a","n","i","m","a","l">>
    [] s = "car"          -> <<"c","a","r">>
    [] s = "vehicle"      -> <<"v","e","h","i","c","l","e">>
    [] s = "building"     -> <<"b","u","i","l","d","i","n","g">>
    [] s = "architecture" -> <<"a","r","c","h","i","t","e","c","t","u","r","e">>
    [] s = "image/"       -> <<"i","m","a","g","e","/">>
    [] s = "image/jpeg"   -> <<"i","m","a","g","e","/","j","p","e","g">>
    [] s = "image/png"    -> <<"i","m","a","g","e","/","p","n","g">>
    [] s = "image/svg+xml" -> <<"i","m","a","g","e","/","s","v","g","+","x","m","l">>
    [] s = "text/plain"   -> <<"t","e","x","t","/","p","l","a","i","n">>
    [] s = "carpet"       -> <<"c","a","r","p","e","t">>
    [] s = "Cart"         -> <<"C","a","r","t">>

LowerChar(c) ==
  CASE c = "I" -> "i" [] c = "M" -> "m" [] c = "G" -> "g"
    [] c = "S" -> "s" [] c = "L" -> "l" [] c = "C" -> "c" [] OTHER -> c

toLowerCase(cs) == [i \in 1..Len(cs) |-> LowerChar(cs[i])]

includes(cs, sub) ==
  \E i \in 0..(Len(cs) - Len(sub)) :
    \A j \in 1..Len(sub) : cs[i + j] = sub[j]

startsWith(cs, pre) ==
  /\ Len(pre) <= Len(cs)
  /\ \A j \in 1..Len(pre) : cs[j] = pre[j]

(***************************************************************************)
(* Files handed to the hook.  A file is named by its name; what the        *)
(* browser and the model backends make of it is given by the operators     *)
(* below (the inputs of the model).                                        *)
(***************************************************************************)
Files == {"IMG_1.jpg", "Selfie.png", "broken.jpg", "blank.svg", "notes.txt"}

FileType(f) ==
  CASE f = "IMG_1.jpg"  -> "image/jpeg"
    [] f = "Selfie.png" -> "image/png"
    [] f = "broken.jpg" -> "image/jpeg"
    [] f = "blank.svg"  -> "image/svg+xml"
    [] f = "notes.txt"  -> "text/plain"

\* the image element loads (img.onload) or fails to decode (img.onerror)
Decodes(f) == f # "broken.jpg"

\* intrinsic width and height of the decoded image
ImgWidth(f) == IF f = "blank.svg" THEN 0 ELSE 4

\* luminance of the HashSide x HashSide samples drawn on the hash canvas
Luminance(f) ==
  CASE f = "Selfie.png" -> [i \in 1..(HashSide * HashSide) |-> IF i = 1 THEN 200 ELSE 40]
    [] f = "blank.svg"  -> [i \in 1..(HashSide * HashSide) |-> 0]
    [] OTHER            -> [i \in 1..(HashSide * HashSide) |-> IF i % 2 = 0 THEN 150 ELSE 30]

\* number of sampled pixels of the palette canvas with alpha above 128
OpaquePixels(f) == IF f = "blank.svg" THEN 0 ELSE 2

\* milliseconds Date.now() advances while the file is analysed
Elapsed(f) == IF f = "Selfie.png" THEN 4 ELSE 2

(***************************************************************************)
(* What a loaded backend answers for a file                                *)
(***************************************************************************)
ModelLabels(f) ==
  CASE f = "IMG_1.jpg"  -> <<[label |-> "Landscape", score |-> 80], [label |-> "nature", score |-> 10]>>
    [] f = "Selfie.png" -> <<[label |-> "person", score |-> 70], [label |-> "portrait", score |-> 20]>>
    [] OTHER            -> <<[label |-> "art", score |-> 40]>>

ModelFaces(f) == IF f = "Selfie.png" THEN 1 ELSE 0

ModelTextLen(f) == 0

ModelNsfw(f) == <<[className |-> "Neutral", probability |-> 90]>>

ModelObjects(f) == <<[label |-> "person", score |-> 90]>>

\* a loaded backend raises a run error on this file
ProviderThrows(f) == f = "blank.svg"

Kinds == {"classifier", "captioner", "objectDetector", "nsfw", "faceDetection", "ocr"}

KindOrder == <<"classifier", "captioner", "objectDetector", "nsfw", "faceDetection", "ocr">>

Categories ==
  {"selfies", "documents", "screenshots", "nature", "food", "art", "nsfw",
   "duplicates", "general", "memes", "receipts", "qr-codes", "pets",
   "vehicles", "architecture"}

(***************************************************************************)
(* UnifiedAIEngine: settings                                               *)
(***************************************************************************)
defaultAiSettings ==
  [runClassifier |-> TRUE, runCaptioner |-> TRUE, runObjectDetection |-> FALSE,
   runNsfw |-> TRUE, nsfwThreshold |-> 70, runFaceDetection |-> TRUE,
   runOcr |-> TRUE, runDuplicateDetection |-> TRUE,
   runQualityAnalysis |-> TRUE, runColorPalette |-> TRUE]

AllStagesSettings == [defaultAiSettings EXCEPT !.runObjectDetection = TRUE]

\* the host asks for the classifier only
ClassifierOnly ==
  [defaultAiSettings EXCEPT !.runCaptioner = FALSE, !.runNsfw = FALSE,
                            !.runFaceDetection = FALSE, !.runOcr = FALSE]

SettingsChoices == {defaultAiSettings, AllStagesSettings}

KindEnabled(settings, kind) ==
  CASE kind = "classifier"     -> settings.runClassifier
    [] kind = "captioner"      -> settings.runCaptioner
    [] kind = "objectDetector" -> settings.runObjectDetection
    [] kind = "nsfw"           -> settings.runNsfw
    [] kind = "faceDetection"  -> settings.runFaceDetection
    [] kind = "ocr"            -> settings.runOcr

\* this.models = {} : nothing loaded, nothing marked failed
NoModels == [loaded |-> {}, failed |-> {}]

(***************************************************************************)
(* UnifiedAIEngine: fallback heuristics                                    *)
(***************************************************************************)
fallbackClassification(f) ==
  LET fileName == toLowerCase(Chars(f)) IN
  IF includes(fileName, Chars("selfie")) \/ includes(fileName, Chars("portrait"))
    THEN <<[label |-> "person", score |-> 90]>>
  ELSE IF includes(fileName, Chars("screenshot"))
    THEN <<[label |-> "screenshot", score |-> 95]>>
  ELSE IF includes(fileName, Chars("document"))
    THEN <<[label |-> "document", score |-> 85]>>
  ELSE IF includes(fileName, Chars("food"))
    THEN <<[label |-> "food", score |-> 80]>>
  ELSE IF includes(fileName, Chars("nature"))
    THEN <<[label |-> "nature", score |-> 80]>>
  ELSE <<[label |-> "image", score |-> 60]>>

\* one of the three stock sentences, picked with Math.random()
fallbackCaption(f) == "fallback"

fallbackFaceDetection(f) ==
  LET fileName == toLowerCase(Chars(f)) IN
  IF includes(fileName, Chars("selfie")) \/ includes(fileName, Chars("portrait"))
    THEN 1 ELSE 0

(***************************************************************************)
(* UnifiedAIEngine: the stages.  m is this.models, ssd is                  *)
(* faceapi.nets.ssdMobilenetv1.isLoaded.                                   *)
(***************************************************************************)
SubSeq5(s) == SubSeq(s, 1, IF Len(s) < 5 THEN Len(s) ELSE 5)

classifyImage(m, f) ==
  IF "classifier" \in m.loaded /\ "classifier" \notin m.failed /\ ~ProviderThrows(f)
    THEN SubSeq5(ModelLabels(f))
    ELSE fallbackClassification(f)

generateCaption(m, f) ==
  IF "captioner" \in m.loaded /\ "captioner" \notin m.failed /\ ~ProviderThrows(f)
    THEN "generated"
    ELSE fallbackCaption(f)

\* called only when the detector is loaded; a run error gives the empty list
detectObjects(m, f) == IF ProviderThrows(f) THEN <<>> ELSE ModelObjects(f)

detectNSFW(m, f) ==
  IF "nsfw" \in m.loaded /\ "nsfw" \notin m.failed /\ ~ProviderThrows(f)
    THEN SelectSeq(ModelNsfw(f), LAMBDA p : p.probability > 1)
    ELSE <<[className |-> "Neutral", probability |-> 95]>>

detectFaces(m, ssd, f) ==
  IF "faceDetection" \notin m.failed /\ ssd /\ ~ProviderThrows(f)
    THEN ModelFaces(f)
    ELSE fallbackFaceDetection(f)

extractText(m, f) ==
  IF "ocr" \in m.loaded /\ "ocr" \notin m.failed /\ ~ProviderThrows(f)
    THEN ModelTextLen(f)
    ELSE 0

RECURSIVE SumSeq(_)
SumSeq(s) == IF s = <<>> THEN 0 ELSE s[1] + SumSeq(Tail(s))

\* bit i is 1 when sample i is brighter than the average of all samples
HashBits(lum) ==
  LET total == SumSeq(lum)
  IN [i \in 1..Len(lum) |-> IF lum[i] * Len(lum) > total THEN 1 ELSE 0]

generatePHash(f) == HashBits(Luminance(f))

\* the record of the four metrics; its numbers are computed by QualityOf
analyzeQuality(f) == "measured"

\* the list of k colours; the colours are computed by PaletteOf
extractColorPalette(f) == "clustered"

\* getImageData on a canvas of width 0 raises; kMeansClustering spreads an
\* undefined pixel when no pixel was kept
StageThrows(stage, f) ==
  CASE stage = "quality" -> ImgWidth(f) = 0
    [] stage = "palette" -> OpaquePixels(f) = 0
    [] OTHER -> FALSE

StageOrder ==
  <<"classification", "description", "objects", "nsfw", "faces", "ocrText",
    "pHash", "quality", "palette">>

StageEnabled(settings, m, stage) ==
  CASE stage = "classification" -> settings.runClassifier
    [] stage = "description"    -> settings.runCaptioner
    [] stage = "objects"        -> settings.runObjectDetection /\ "objectDetector" \in m.loaded
    [] stage = "nsfw"           -> settings.runNsfw
    [] stage = "faces"          -> settings.runFaceDetection
    [] stage = "ocrText"        -> settings.runOcr
    [] stage = "pHash"          -> settings.runDuplicateDetection
    [] stage = "quality"        -> settings.runQualityAnalysis
    [] stage = "palette"        -> settings.runColorPalette

\* the analysis record before any stage has run
NewAnalysis(f) ==
  [file |-> f, width |-> ImgWidth(f), has |-> {},
   classification |-> <<>>, description |-> "", objects |-> <<>>,
   nsfw |-> <<>>, faces |-> 0, ocrText |-> 0, pHash |-> <<>>,
   quality |-> "", palette |-> "", processingTime |-> 0, error |-> "",
   confidence |-> 0, duplicateHash |-> <<>>, isNSFW |-> FALSE]

StageOutput(a, stage, m, ssd) ==
  LET f == a.file
      b == [a EXCEPT !.has = @ \cup {stage}] IN
  CASE stage = "classification" -> [b EXCEPT !.classification = classifyImage(m, f)]
    [] stage = "description"    -> [b EXCEPT !.description = generateCaption(m, f)]
    [] stage = "objects"        -> [b EXCEPT !.objects = detectObjects(m, f)]
    [] stage = "nsfw"           -> [b EXCEPT !.nsfw = detectNSFW(m, f)]
    [] stage = "faces"          -> [b EXCEPT !.faces = detectFaces(m, ssd, f)]
    [] stage = "ocrText"        -> [b EXCEPT !.ocrText = extractText(m, f)]
    [] stage = "pHash"          -> [b EXCEPT !.pHash = generatePHash(f)]
    [] stage = "quality"        -> [b EXCEPT !.quality = analyzeQuality(f)]
    [] stage = "palette"        -> [b EXCEPT !.palette = extractColorPalette(f)]

\* the body of the try block of analyze: the stages in order, the first
\* one that raises ends the block and sets the error field
RECURSIVE RunStages(_, _, _, _, _)
RunStages(a, i, settings, m, ssd) ==
  IF i > Len(StageOrder) THEN a
  ELSE IF ~StageEnabled(settings, m, StageOrder[i])
    THEN RunStages(a, i + 1, settings, m, ssd)
  ELSE IF StageThrows(StageOrder[i], a.file)
    THEN [a EXCEPT !.error = "Analysis error"]
  ELSE CHOOSE r \in {RunStages(b, i + 1, settings, m, ssd) :
                       b \in {StageOutput(a, StageOrder[i], m, ssd)}} : TRUE

\* analyze, from the loaded image element to the returned record
analyze(f, settings, m, ssd) ==
  [RunStages(NewAnalysis(f), 1, settings, m, ssd) EXCEPT !.processingTime = Elapsed(f)]

(***************************************************************************)
(* UnifiedAIEngine: categorizer, file name, duplicate grouper              *)
(***************************************************************************)
LabelHas(topLabel, words) == \E w \in words : includes(topLabel, Chars(w))

\* a categorizer that tries the vehicle words before the pet words
categorizeImage_VehiclesBeforePets(a) ==
  IF a.faces > 0 THEN "selfies"
  ELSE IF a.ocrText > 50 THEN "documents"
  ELSE
    LET topLabel == IF Len(a.classification) > 0
                      THEN toLowerCase(Chars(a.classification[1].label))
                      ELSE <<>> IN
    IF Len(a.classification) > 0 /\ LabelHas(topLabel, {"car", "vehicle"})
      THEN "vehicles"
    ELSE IF Len(a.classification) > 0 /\ LabelHas(topLabel, {"pet", "animal"})
      THEN "pets"
    ELSE IF \E k \in 1..Len(a.nsfw) : a.nsfw[k].probability > 70
      THEN "nsfw"
    ELSE "general"

\* a categorizer that tests the NSFW predictions before the faces
categorizeImage_NsfwFirst(a) ==
  IF \E k \in 1..Len(a.nsfw) : a.nsfw[k].probability > 70 THEN "nsfw"
  ELSE IF a.faces > 0 THEN "selfies"
  ELSE IF a.ocrText > 50 THEN "documents"
  ELSE "general"

\* a categorizer whose text rule starts at 50 characters
categorizeImage_FiftyIsText(a) ==
  IF a.faces > 0 THEN "selfies"
  ELSE IF a.ocrText >= 50 THEN "documents"
  ELSE IF \E k \in 1..Len(a.nsfw) : a.nsfw[k].probability > 70 THEN "nsfw"
  ELSE "general"

categorizeImage(a) ==
  IF a.faces > 0 THEN "selfies"
  ELSE IF a.ocrText > 50 THEN "documents"
  ELSE
    LET topLabel == IF Len(a.classification) > 0
                      THEN toLowerCase(Chars(a.classification[1].label))
                      ELSE <<>> IN
    IF Len(a.classification) > 0 /\ LabelHas(topLabel, {"screen", "computer"})
      THEN "screenshots"
    ELSE IF Len(a.classification) > 0
            /\ LabelHas(topLabel, {"nature", "landscape", "mountain", "beach"})
      THEN "nature"
    ELSE IF Len(a.classification) > 0 /\ LabelHas(topLabel, {"food", "meal", "dish"})
      THEN "food"
    ELSE IF Len(a.classification) > 0 /\ LabelHas(topLabel, {"art", "painting"})
      THEN "art"
    ELSE IF Len(a.classification) > 0 /\ LabelHas(topLabel, {"pet", "animal"})
      THEN "pets"
    ELSE IF Len(a.classification) > 0 /\ LabelHas(topLabel, {"car", "vehicle"})
      THEN "vehicles"
    ELSE IF Len(a.classification) > 0 /\ LabelHas(topLabel, {"building", "architecture"})
      THEN "architecture"
    ELSE IF \E k \in 1..Len(a.nsfw) : a.nsfw[k].probability > 70
      THEN "nsfw"
    ELSE "general"

\* `${category}_${descriptor}_${date}_${random}.jpg`
generateSmartFilename(a) == <<"smart", categorizeImage(a)>>

\* a similarity that counts the matches over the length of the first hash
\* without comparing the lengths
calculateHashSimilarity_NoLengthTest(hash1, hash2) ==
  [num |-> Cardinality({i \in 1..Len(hash1) : i <= Len(hash2) /\ hash1[i] = hash2[i]}),
   den |-> Len(hash1)]

\* matches / length, kept as a fraction; 0 for hashes of different length
calculateHashSimilarity(hash1, hash2) ==
  IF Len(hash1) # Len(hash2) THEN [num |-> 0, den |-> 1]
  ELSE [num |-> Cardinality({i \in 1..Len(hash1) : hash1[i] = hash2[i]}),
        den |-> Len(hash1)]

\* similarity >= 0.85
IsSimilar_AtLeast(sim) == sim.num * 100 >= 85 * sim.den

\* similarity > 0.85
IsSimilar(sim) == sim.num * 100 > 85 * sim.den

\* an inner loop that does not mark the images it adds
RECURSIVE ScanGroup_Unmarked(_, _, _, _, _)
ScanGroup_Unmarked(imgs, i, j, group, processed) ==
  IF j > Len(imgs) THEN [group |-> group, processed |-> processed]
  ELSE IF imgs[j].id \in processed \/ imgs[j].analysis.pHash = <<>>
    THEN ScanGroup_Unmarked(imgs, i, j + 1, group, processed)
  ELSE IF IsSimilar(calculateHashSimilarity(imgs[i].analysis.pHash, imgs[j].analysis.pHash))
    THEN ScanGroup_Unmarked(imgs, i, j + 1, Append(group, imgs[j].id), processed)
  ELSE ScanGroup_Unmarked(imgs, i, j + 1, group, processed)

\* an inner loop that compares image j with the member added last
RECURSIVE ScanGroup_Chained(_, _, _, _, _)
ScanGroup_Chained(imgs, i, j, group, processed) ==
  IF j > Len(imgs) THEN [group |-> group, processed |-> processed]
  ELSE IF imgs[j].id \in processed \/ imgs[j].analysis.pHash = <<>>
    THEN ScanGroup_Chained(imgs, i, j + 1, group, processed)
  ELSE
    LET last == CHOOSE k \in 1..Len(imgs) : imgs[k].id = group[Len(group)] IN
    IF IsSimilar(calculateHashSimilarity(imgs[last].analysis.pHash, imgs[j].analysis.pHash))
      THEN ScanGroup_Chained(imgs, i, j + 1, Append(group, imgs[j].id),
                             processed \cup {imgs[j].id})
      ELSE ScanGroup_Chained(imgs, i, j + 1, group, processed)

\* the inner loop over j: the later images added to the group of image i
RECURSIVE ScanGroup(_, _, _, _, _)
ScanGroup(imgs, i, j, group, processed) ==
  IF j > Len(imgs) THEN [group |-> group, processed |-> processed]
  ELSE IF imgs[j].id \in processed \/ imgs[j].analysis.pHash = <<>>
    THEN ScanGroup(imgs, i, j + 1, group, processed)
  ELSE IF IsSimilar(calculateHashSimilarity(imgs[i].analysis.pHash, imgs[j].analysis.pHash))
    THEN ScanGroup(imgs, i, j + 1, Append(group, imgs[j].id), processed \cup {imgs[j].id})
  ELSE ScanGroup(imgs, i, j + 1, group, processed)

\* an outer loop that emits every group, those of one member included
RECURSIVE GroupFrom_EmitsSingles(_, _, _, _)
GroupFrom_EmitsSingles(imgs, i, groups, processed) ==
  IF i > Len(imgs) THEN groups
  ELSE IF imgs[i].id \in processed \/ imgs[i].analysis.pHash = <<>>
    THEN GroupFrom_EmitsSingles(imgs, i + 1, groups, processed)
  ELSE
    LET r == ScanGroup(imgs, i, i + 1, <<imgs[i].id>>, processed) IN
    GroupFrom_EmitsSingles(imgs, i + 1,
                           Append(groups, [group |-> r.group, similarity |-> 90]),
                           r.processed \cup {imgs[i].id})

RECURSIVE GroupFrom(_, _, _, _)
GroupFrom(imgs, i, groups, processed) ==
  IF i > Len(imgs) THEN groups
  ELSE IF imgs[i].id \in processed \/ imgs[i].analysis.pHash = <<>>
    THEN GroupFrom(imgs, i + 1, groups, processed)
  ELSE
    LET r == ScanGroup(imgs, i, i + 1, <<imgs[i].id>>, processed) IN
    IF Len(r.group) > 1
      THEN GroupFrom(imgs, i + 1,
                     Append(groups, [group |-> r.group, similarity |-> 90]),
                     r.processed \cup {imgs[i].id})
      ELSE GroupFrom(imgs, i + 1, groups, r.processed)

findSimilarImages(imgs) == GroupFrom(imgs, 1, <<>>, {})

(***************************************************************************)
(* State                                                                   *)
(***************************************************************************)
VARIABLES
  images,          \* useState images: the collection, in insertion order
  progress,        \* useState progress
  stats,           \* useState stats
  suggestions,     \* useState suggestions
  isProcessing,    \* useState isProcessing
  organizeOptions, \* useState organizeOptions
  abortRef,        \* abortControllerRef.current: a controller, 0 for null
  aborted,         \* the controllers whose signal is aborted
  runs,            \* the processImages calls that started a loop
  nextId,          \* the next crypto.randomUUID() of addImages
  isReady,         \* UnifiedAIEngine.isReady
  models,          \* UnifiedAIEngine.models
  ssdLoaded,       \* faceapi.nets.ssdMobilenetv1.isLoaded
  inits,           \* initialize calls suspended at a load
  terminating,     \* terminate calls suspended at ocr.terminate()
  engineCalls,     \* number of initialize and terminate calls made
  direct,          \* an analyze call made by the host itself
  initializedSince \* an initialize call has completed and terminate was not called since

hookVars == <<images, progress, stats, suggestions, isProcessing,
              organizeOptions, abortRef, aborted, runs, nextId>>

engineVars == <<isReady, models, ssdLoaded, inits, terminating, engineCalls,
                initializedSince>>

vars == <<images, progress, stats, suggestions, isProcessing, organizeOptions,
          abortRef, aborted, runs, nextId, isReady, models, ssdLoaded, inits,
          terminating, engineCalls, direct, initializedSince>>

NoCategorized == [c \in Categories |-> 0]

DEFAULT_ORGANIZE_OPTIONS == [autoRename |-> TRUE, findDuplicates |-> TRUE]

NoCall == [pc |-> "idle", file |-> "", settings |-> defaultAiSettings,
           result |-> NewAnalysis("")]

Init ==
  /\ images = <<>>
  /\ progress = [current |-> 0, total |-> 0, status |-> "idle", stage |-> "upload"]
  /\ stats = [total |-> 0, processed |-> 0, successful |-> 0, errors |-> 0,
              categorized |-> NoCategorized,
              avgProcessingTime |-> [num |-> 0, den |-> 1], ended |-> FALSE]
  /\ suggestions = <<>>
  /\ isProcessing = FALSE
  /\ organizeOptions = DEFAULT_ORGANIZE_OPTIONS
  /\ abortRef = 0
  /\ aborted = {}
  /\ runs = <<>>
  /\ nextId = 1
  /\ isReady = FALSE
  /\ models = NoModels
  /\ ssdLoaded = FALSE
  /\ inits = <<>>
  /\ terminating = 0
  /\ engineCalls = 0
  /\ direct = NoCall
  /\ initializedSince = FALSE

(***************************************************************************)
(* UnifiedAIEngine.initialize                                              *)
(***************************************************************************)
\* what the network does to each load of one initialize call
LoadOutcomes == {"ok", "fail", "failAfterSsd"}

AllOk == [k \in Kinds |-> "ok"]

AllFail == [k \in Kinds |-> "fail"]

MixedLoads ==
  [k \in Kinds |-> CASE k = "classifier" -> "fail"
                     [] k = "faceDetection" -> "failAfterSsd"
                     [] OTHER -> "ok"]

LoadPlans == {AllOk, AllFail, MixedLoads}

\* index of the first enabled load at or after position i, 7 if there is none
RECURSIVE NextLoad(_, _)
NextLoad(settings, i) ==
  IF i > Len(KindOrder) THEN i
  ELSE IF KindEnabled(settings, KindOrder[i]) THEN i
  ELSE NextLoad(settings, i + 1)

RemoveAt(s, i) == SubSeq(s, 1, i - 1) \o SubSeq(s, i + 1, Len(s))

\* the call, up to its first await; a ready engine returns at once
InitializeCall(settings, plan) ==
  /\ engineCalls < MaxEngineCalls
  /\ IF isReady
       THEN /\ initializedSince' = TRUE
            /\ UNCHANGED <<isReady, inits, engineCalls>>
       ELSE LET first == NextLoad(settings, 1) IN
            IF first > Len(KindOrder)
              THEN /\ isReady' = TRUE
                   /\ initializedSince' = TRUE
                   /\ engineCalls' = engineCalls + 1
                   /\ UNCHANGED inits
              ELSE /\ inits' = Append(inits, [settings |-> settings, plan |-> plan,
                                             pc |-> first])
                   /\ engineCalls' = engineCalls + 1
                   /\ UNCHANGED <<isReady, initializedSince>>
  /\ UNCHANGED <<models, ssdLoaded, terminating, direct>>
  /\ UNCHANGED hookVars

\* a load settles: the model is stored or the failure is marked, and the
\* call goes on to its next load or, after the last one, sets isReady
LoadReturns(t) ==
  /\ t \in 1..Len(inits)
  /\ LET task == inits[t]
         kind == KindOrder[task.pc]
         outcome == task.plan[kind]
         next == NextLoad(task.settings, task.pc + 1)
     IN
     /\ models' =
          IF outcome = "ok"
            THEN IF kind = "faceDetection" THEN models
                 ELSE [models EXCEPT !.loaded = @ \cup {kind}]
            ELSE [models EXCEPT !.failed = @ \cup {kind}]
     /\ ssdLoaded' =
          IF kind = "faceDetection" /\ outcome \in {"ok", "failAfterSsd"}
            THEN TRUE ELSE ssdLoaded
     /\ IF next > Len(KindOrder)
          THEN /\ inits' = RemoveAt(inits, t)
               /\ isReady' = TRUE
               /\ initializedSince' = TRUE
          ELSE /\ inits' = [inits EXCEPT ![t].pc = next]
               /\ UNCHANGED <<isReady, initializedSince>>
  /\ UNCHANGED <<terminating, engineCalls, direct>>
  /\ UNCHANGED hookVars

(***************************************************************************)
(* UnifiedAIEngine.terminate                                               *)
(***************************************************************************)
TerminateCall ==
  /\ engineCalls < MaxEngineCalls
  /\ engineCalls' = engineCalls + 1
  /\ initializedSince' = FALSE
  /\ IF "ocr" \in models.loaded
       THEN /\ terminating' = terminating + 1
            /\ UNCHANGED <<isReady, models>>
       ELSE /\ isReady' = FALSE
            /\ models' = NoModels
            /\ UNCHANGED terminating
  /\ UNCHANGED <<ssdLoaded, inits, direct>>
  /\ UNCHANGED hookVars

TerminateReturns ==
  /\ terminating > 0
  /\ terminating' = terminating - 1
  /\ isReady' = FALSE
  /\ models' = NoModels
  /\ UNCHANGED <<ssdLoaded, inits, engineCalls, direct, initializedSince>>
  /\ UNCHANGED hookVars

(***************************************************************************)
(* UnifiedAIEngine.analyze called by the host                              *)
(***************************************************************************)
\* the isReady test of analyze
AnalyzeAdmits == isReady

AnalyzeCall(f, settings) ==
  /\ direct.pc # "inflight"
  /\ direct' = IF AnalyzeAdmits
                 THEN [NoCall EXCEPT !.pc = "inflight", !.file = f, !.settings = settings]
                 ELSE [NoCall EXCEPT !.pc = "notInitialized", !.file = f,
                                     !.settings = settings]
  /\ UNCHANGED engineVars
  /\ UNCHANGED hookVars

AnalyzeReturns ==
  /\ direct.pc = "inflight"
  /\ direct' = IF Decodes(direct.file)
                 THEN [direct EXCEPT !.pc = "returned",
                         !.result = analyze(direct.file, direct.settings, models, ssdLoaded)]
                 ELSE [direct EXCEPT !.pc = "loadError"]
  /\ UNCHANGED engineVars
  /\ UNCHANGED hookVars

EngineNext ==
  \/ \E settings \in SettingsChoices, plan \in LoadPlans : InitializeCall(settings, plan)
  \/ \E t \in 1..MaxEngineCalls : LoadReturns(t)
  \/ TerminateCall
  \/ TerminateReturns
  \/ \E f \in Files, settings \in SettingsChoices : AnalyzeCall(f, settings)
  \/ AnalyzeReturns

EngineSpec == Init /\ [][EngineNext]_vars

(***************************************************************************)
(* useImageOrganizer: helpers of processImages.  The hook state a          *)
(* synchronous stretch of processImages reads and writes is threaded       *)
(* through the operators as a record h; h.run is the call's own frame      *)
(* (its closure and local variables).                                      *)
(***************************************************************************)
MapImages(imgs, id, F(_)) ==
  [k \in 1..Len(imgs) |-> IF imgs[k].id = id THEN F(imgs[k]) ELSE imgs[k]]

PeopleTag(n) == IF n = 1 THEN "1-people" ELSE "n-people"

FirstLabels(c) ==
  {c[k].label : k \in 1..(IF Len(c) < 3 THEN Len(c) ELSE 3)}

\* the tags derived from an analysis
AnalysisTags(category, a) ==
  {category}
    \cup (IF "classification" \in a.has THEN FirstLabels(a.classification) ELSE {})
    \cup (IF a.ocrText > 0 THEN {"text"} ELSE {})
    \cup (IF a.faces > 0 THEN {"faces", PeopleTag(a.faces)} ELSE {})

\* the analysis with the compatibility fields added
WithCompatFields(a) ==
  [a EXCEPT !.confidence = IF Len(a.classification) > 0 /\ a.classification[1].score # 0
                             THEN a.classification[1].score ELSE 50,
            !.duplicateHash = a.pHash,
            !.isNSFW = \E k \in 1..Len(a.nsfw) : a.nsfw[k].probability > 70]

\* the analysis the catch block attaches
StubAnalysis(f) == [NewAnalysis(f) EXCEPT !.width = 0, !.error = "Processing failed"]

\* the catch block without its errors++
RecordFailure_Uncounted(h) ==
  LET r == h.run
      image == r.list[r.idx]
      Upd(img) == [img EXCEPT !.processed = TRUE,
                              !.hasAnalysis = TRUE,
                              !.analysis = StubAnalysis(img.file)]
  IN [h EXCEPT !.images = MapImages(h.images, image.id, Upd)]

\* a catch block that also counts the failed image under general
RecordFailure_Categorized(h) ==
  LET r == h.run
      image == r.list[r.idx]
      Upd(img) == [img EXCEPT !.processed = TRUE,
                              !.hasAnalysis = TRUE,
                              !.analysis = StubAnalysis(img.file)]
  IN [h EXCEPT !.images = MapImages(h.images, image.id, Upd),
               !.run.categorized["general"] = @ + 1,
               !.run.errors = @ + 1]

\* the catch block
RecordFailure(h) ==
  LET r == h.run
      image == r.list[r.idx]
      Upd(img) == [img EXCEPT !.processed = TRUE,
                              !.hasAnalysis = TRUE,
                              !.analysis = StubAnalysis(img.file)]
  IN [h EXCEPT !.images = MapImages(h.images, image.id, Upd),
               !.run.errors = @ + 1]

\* a try block that treats an analysis made of fallback values as a failure
RecordSuccess_FallbackFails(h, a) ==
  IF a.description = "fallback" THEN RecordFailure(h)
  ELSE LET r == h.run
           image == r.list[r.idx]
           category == categorizeImage(a)
           Upd(img) == [img EXCEPT !.analysis = WithCompatFields(a),
                                   !.hasAnalysis = TRUE,
                                   !.category = category,
                                   !.processed = TRUE]
       IN [h EXCEPT !.images = MapImages(h.images, image.id, Upd),
                    !.run.categorized[category] = @ + 1,
                    !.run.successful = @ + 1,
                    !.run.timeSum = @ + a.processingTime]

\* the try block after analyzeImage has returned the analysis a
RecordSuccess(h, a) ==
  LET r == h.run
      image == r.list[r.idx]
      category == categorizeImage(a)
      smartName == IF r.options.autoRename THEN generateSmartFilename(a) ELSE image.name
      Upd(img) == [img EXCEPT !.analysis = WithCompatFields(a),
                              !.hasAnalysis = TRUE,
                              !.category = category,
                              !.name = smartName,
                              !.processed = TRUE,
                              !.tags = @ \cup AnalysisTags(category, a)]
  IN [h EXCEPT !.images = MapImages(h.images, image.id, Upd),
               !.run.categorized[category] = @ + 1,
               !.run.successful = @ + 1,
               !.run.timeSum = @ + a.processingTime]

\* an end of iteration that steps over the next image of the list
PublishStats_SkipsNext(h) ==
  LET r == [h.run EXCEPT !.processed = @ + 1] IN
  [h EXCEPT !.run = [r EXCEPT !.idx = @ + 2],
            !.stats = [@ EXCEPT !.processed = r.processed,
                                !.successful = r.successful,
                                !.errors = r.errors,
                                !.categorized = r.categorized,
                                !.avgProcessingTime =
                                   [num |-> r.timeSum, den |-> r.successful]]]

\* processed++ and the setStats that ends an iteration
PublishStats(h) ==
  LET r == [h.run EXCEPT !.processed = @ + 1] IN
  [h EXCEPT !.run = [r EXCEPT !.idx = @ + 1],
            !.stats = [@ EXCEPT !.processed = r.processed,
                                !.successful = r.successful,
                                !.errors = r.errors,
                                !.categorized = r.categorized,
                                !.avgProcessingTime =
                                   [num |-> r.timeSum, den |-> r.successful]]]

\* the images of the closure handed to the duplicate grouper
ProcessedWithAnalysis(imgs) ==
  SelectSeq(imgs, LAMBDA img : img.processed /\ img.hasAnalysis)

MergeSuggestions(groups) ==
  [k \in 1..Len(groups) |->
     [type |-> "merge", confidence |-> groups[k].similarity,
      imageIds |-> groups[k].group]]

\* the frame of a processImages call that has not started its loop yet
NewFrame ==
  [ctrl |-> 0, closure |-> <<>>, options |-> DEFAULT_ORGANIZE_OPTIONS,
   list |-> <<>>, idx |-> 1, pc |-> "loop",
   processed |-> 0, successful |-> 0, errors |-> 0,
   categorized |-> NoCategorized, timeSum |-> 0,
   stoppedAt |-> 0, organized |-> FALSE]

\* what is left of the frame of a call that has returned: whether the
\* duplicate step ran
ReturnedFrame == [NewFrame EXCEPT !.pc = "done"]

\* a call that never gets past its loop: no completion, no return
AfterLoop_NeverReturns(h) == [h EXCEPT !.run.pc = "loop"]

\* the code after the loop: duplicates, completion; the frame of the call is
\* dropped when the call returns (its counters stay for inspection)
AfterLoop(h) ==
  LET r == h.run
      found == IF r.options.findDuplicates
                 THEN MergeSuggestions(findSimilarImages(ProcessedWithAnalysis(r.closure)))
                 ELSE <<>>
  IN [h EXCEPT !.suggestions = @ \o found,
               !.progress = [current |-> r.processed, total |-> Len(r.list),
                             status |-> "complete", stage |-> "complete"],
               !.stats.ended = TRUE,
               !.isProcessing = FALSE,
               !.run = [ReturnedFrame EXCEPT !.ctrl = r.ctrl,
                                             !.organized = r.options.findDuplicates]]

\* abortControllerRef.current?.signal.aborted
SignalAborted(ref, abortedSet) == ref # 0 /\ ref \in abortedSet

\* the for loop from the head of an iteration up to the next await: an
\* analyzeImage call on an engine that is not ready is rejected at once and
\* the loop goes on without suspending
RECURSIVE Loop(_, _, _, _)
Loop(h, ref, abortedSet, ready) ==
  LET r == h.run IN
  IF r.idx > Len(r.list) THEN AfterLoop(h)
  ELSE IF SignalAborted(ref, abortedSet) THEN AfterLoop(h)
  ELSE
    LET h1 == [h EXCEPT !.progress.current = r.processed + 1] IN
    IF ready
      THEN [h1 EXCEPT !.run.pc = "inflight"]
      ELSE Loop(PublishStats(RecordFailure(h1)), ref, abortedSet, ready)

HookState(r) ==
  [images |-> images, progress |-> progress, stats |-> stats,
   suggestions |-> suggestions, isProcessing |-> isProcessing, run |-> r]

\* commit the hook state a stretch of run i has produced
Commit(h, i) ==
  /\ images' = h.images
  /\ progress' = h.progress
  /\ stats' = h.stats
  /\ suggestions' = h.suggestions
  /\ isProcessing' = h.isProcessing
  /\ runs' = IF i > Len(runs) THEN Append(runs, h.run) ELSE [runs EXCEPT ![i] = h.run]

(***************************************************************************)
(* useImageOrganizer: the operations                                       *)
(***************************************************************************)
NewImage(id, f) ==
  [id |-> id, file |-> f, name |-> <<"file", f>>, processed |-> FALSE,
   category |-> "", tags |-> {}, hasAnalysis |-> FALSE, analysis |-> NewAnalysis(f)]

IsImageFile(f) == startsWith(Chars(FileType(f)), Chars("image/"))

RECURSIVE NewImages(_, _)
NewImages(files, id) ==
  IF files = <<>> THEN <<>>
  ELSE IF ~IsImageFile(Head(files)) THEN NewImages(Tail(files), id)
  ELSE <<NewImage(id, Head(files))>> \o NewImages(Tail(files), id + 1)

addImages(files) ==
  /\ nextId + Len(NewImages(files, nextId)) <= MaxImages + 1
  /\ images' = images \o NewImages(files, nextId)
  /\ nextId' = nextId + Len(NewImages(files, nextId))
  /\ UNCHANGED <<progress, stats, suggestions, isProcessing, organizeOptions,
                 abortRef, aborted, runs>>
  /\ UNCHANGED <<engineVars, direct>>

\* the guard of processImages
MayStart == ~(isProcessing \/ Len(images) = 0)

processImages ==
  /\ Len(runs) < MaxRuns
  /\ IF ~MayStart
       THEN UNCHANGED hookVars
       ELSE
         LET ctrl == Len(runs) + 1
             unprocessedImages == SelectSeq(images, LAMBDA img : ~img.processed)
             r == [NewFrame EXCEPT !.ctrl = ctrl, !.closure = images,
                                   !.options = organizeOptions,
                                   !.list = unprocessedImages]
             h0 == [HookState(r) EXCEPT
                      !.isProcessing = TRUE,
                      !.progress = [current |-> 0, total |-> Len(unprocessedImages),
                                    status |-> "processing", stage |-> "analysis"],
                      !.stats = [total |-> Len(unprocessedImages), processed |-> 0,
                                 successful |-> 0, errors |-> 0,
                                 categorized |-> NoCategorized,
                                 avgProcessingTime |-> [num |-> 0, den |-> 1],
                                 ended |-> FALSE]]
         IN /\ abortRef' = ctrl
            /\ Commit(Loop(h0, ctrl, aborted, isReady), ctrl)
            /\ UNCHANGED <<organizeOptions, aborted, nextId>>
  /\ UNCHANGED <<engineVars, direct>>

\* the analysis awaited by run i settles and the run goes on to its next await
AnalysisSettles(i) ==
  /\ i \in 1..Len(runs)
  /\ runs[i].pc = "inflight"
  /\ LET h == HookState(runs[i])
         f == runs[i].list[runs[i].idx].file
     IN \E a \in {analyze(f, defaultAiSettings, models, ssdLoaded)} :
          \E h1 \in {IF Decodes(f) THEN RecordSuccess(h, a) ELSE RecordFailure(h)} :
            \E h2 \in {PublishStats(h1)} :
              \E h3 \in {Loop(h2, abortRef, aborted, isReady)} :
                Commit(h3, i)
  /\ UNCHANGED <<organizeOptions, abortRef, aborted, nextId>>
  /\ UNCHANGED <<engineVars, direct>>

stopProcessing ==
  /\ aborted' = IF abortRef = 0 THEN aborted ELSE aborted \cup {abortRef}
  /\ isProcessing' = FALSE
  /\ progress' = [progress EXCEPT !.status = "idle"]
  /\ runs' = [i \in 1..Len(runs) |->
                IF runs[i].pc = "inflight" /\ runs[i].stoppedAt = 0
                  THEN [runs[i] EXCEPT !.stoppedAt = runs[i].idx]
                  ELSE runs[i]]
  /\ UNCHANGED <<images, stats, suggestions, organizeOptions, abortRef, nextId>>
  /\ UNCHANGED <<engineVars, direct>>

removeImage(id) ==
  /\ images' = SelectSeq(images, LAMBDA img : img.id # id)
  /\ UNCHANGED <<progress, stats, suggestions, isProcessing, organizeOptions,
                 abortRef, aborted, runs, nextId>>
  /\ UNCHANGED <<engineVars, direct>>

clearAll ==
  /\ images' = <<>>
  /\ suggestions' = <<>>
  /\ progress' = [current |-> 0, total |-> 0, status |-> "idle", stage |-> "upload"]
  /\ UNCHANGED <<stats, isProcessing, organizeOptions, abortRef, aborted, runs, nextId>>
  /\ UNCHANGED <<engineVars, direct>>

OptionChoices ==
  {DEFAULT_ORGANIZE_OPTIONS, [autoRename |-> TRUE, findDuplicates |-> FALSE]}

setOrganizeOptions(options) ==
  /\ organizeOptions' = options
  /\ UNCHANGED <<images, progress, stats, suggestions, isProcessing,
                 abortRef, aborted, runs, nextId>>
  /\ UNCHANGED <<engineVars, direct>>

\* an action that recategorises every member of the group
ApplyMerge_AllMembers(imgs, ids) ==
  LET imagesToUpdate == {ids[j] : j \in 1..Len(ids)}
  IN [n \in 1..Len(imgs) |->
        IF imgs[n].id \in imagesToUpdate
          THEN [imgs[n] EXCEPT !.category = "duplicates"]
          ELSE imgs[n]]

\* an action that undoes itself when it is invoked again
ApplyMerge_Toggles(imgs, ids) ==
  LET imagesToUpdate == {ids[j] : j \in 2..Len(ids)}
  IN [n \in 1..Len(imgs) |->
        IF imgs[n].id \in imagesToUpdate
          THEN [imgs[n] EXCEPT !.category =
                  IF @ = "duplicates" THEN "general" ELSE "duplicates"]
          ELSE imgs[n]]

\* the setImages of a merge suggestion's action: group.slice(1) recategorised
ApplyMerge(imgs, ids) ==
  LET imagesToUpdate == {ids[j] : j \in 2..Len(ids)}
  IN [n \in 1..Len(imgs) |->
        IF imgs[n].id \in imagesToUpdate
          THEN [imgs[n] EXCEPT !.category = "duplicates"]
          ELSE imgs[n]]

\* the action of merge suggestion k
SuggestionAction(k) ==
  /\ k \in 1..Len(suggestions)
  /\ images' = ApplyMerge(images, suggestions[k].imageIds)
  /\ UNCHANGED <<progress, stats, suggestions, isProcessing, organizeOptions,
                 abortRef, aborted, runs, nextId>>
  /\ UNCHANGED <<engineVars, direct>>

FileBatches == {<<"broken.jpg">>, <<"notes.txt", "IMG_1.jpg">>}

HookNext ==
  \/ \E files \in FileBatches : addImages(files)
  \/ processImages
  \/ \E i \in 1..MaxRuns : AnalysisSettles(i)
  \/ stopProcessing
  \/ \E id \in 1..MaxImages : removeImage(id)
  \/ clearAll
  \/ \E options \in OptionChoices : setOrganizeOptions(options)
  \/ \E k \in 1..MaxImages : SuggestionAction(k)

Next ==
  \/ HookNext
  \/ inits = <<>> /\ InitializeCall(ClassifierOnly, AllOk)
  \/ \E t \in 1..MaxEngineCalls : LoadReturns(t)

Spec == Init /\ [][Next]_vars

(***************************************************************************)
(* Scenario: every backend fails to load, then batches are processed       *)
(***************************************************************************)
DecodableBatches == {<<"IMG_1.jpg">>, <<"Selfie.png">>, <<"blank.svg">>}

FallbackNext ==
  \/ inits = <<>> /\ InitializeCall(AllStagesSettings, AllFail)
  \/ LoadReturns(1)
  \/ \E files \in DecodableBatches : addImages(files)
  \/ isReady /\ processImages
  \/ \E i \in 1..MaxRuns : AnalysisSettles(i)

FallbackSpec == Init /\ [][FallbackNext]_vars

(***************************************************************************)
(* Properties                                                              *)
(***************************************************************************)
\* run i resumes from its await in this step
Settles(i) ==
  /\ runs[i].pc = "inflight"
  /\ runs'[i].pc = "done" \/ runs'[i].idx # runs[i].idx

\* the processImages call of run i returns in this step
Returns(i) == runs[i].pc = "inflight" /\ runs'[i].pc = "done"

\* stopProcessing was called while run i was active
Cancelled(i) == runs[i].stoppedAt # 0

\* C1: in every reachable state, during and after any batch run (failing
\* images, cancelled runs and a run started after stopProcessing included),
\* stats.processed = stats.successful + stats.errors.
StatsBalanced == stats.processed = stats.successful + stats.errors

\* a run started after a stop has published successes and failures
StatsBalancedWitness ==
  /\ Len(runs) = 2
  /\ aborted # {}
  /\ stats.successful > 0
  /\ stats.errors > 0
  /\ stats.processed = stats.successful + stats.errors

\* C2: in every reachable state, for any interleaving of processImages,
\* stopProcessing, addImages and removeImage, stats.processed <= stats.total.
StatsWithinTotal == stats.processed <= stats.total

\* C3: once stopProcessing has been called during a run, the image in flight
\* is completed and recorded and the run analyses no image after it.
NoAnalysisAfterStop ==
  [][\A i \in 1..Len(runs) :
       (Settles(i) /\ Cancelled(i)) =>
         /\ runs'[i].pc = "done"
         /\ stats'.processed = runs[i].processed + 1]_vars

\* C4: when a cancelled run's loop has finished the status is idle; a
\* cancelled run never ends with status complete.
CancelledRunEndsIdle ==
  [][\A i \in 1..Len(runs) :
       (Returns(i) /\ Cancelled(i)) => progress'.status = "idle"]_vars

\* C5: cancelling after the k-th image of a run has completed leaves
\* stats.processed = k and status idle when the run ends.
CancelAfterKLeavesK ==
  [][\A i \in 1..Len(runs) :
       (Returns(i) /\ Cancelled(i)) =>
         /\ stats'.processed = runs[i].stoppedAt - 1
         /\ progress'.status = "idle"]_vars

\* C6: a cancelled run never runs the organization step and never adds
\* merge suggestions.
CancelledRunSkipsOrganization ==
  [][\A i \in 1..Len(runs) :
       (Returns(i) /\ Cancelled(i)) =>
         /\ ~runs'[i].organized
         /\ suggestions' = suggestions]_vars

\* C7: when the analysis of an image throws, the image is marked processed
\* with a stub analysis (zero dimensions, an error string), stats.errors is
\* incremented by one, and the loop goes on with the next image.
FailureCountedAndSkipped ==
  [][\A i \in 1..Len(runs) :
       (Settles(i) /\ ~Decodes(runs[i].list[runs[i].idx].file)) =>
         /\ stats'.errors = stats.errors + 1
         /\ \A k \in 1..Len(images') :
              images'[k].id = runs[i].list[runs[i].idx].id =>
                /\ images'[k].processed
                /\ images'[k].hasAnalysis
                /\ images'[k].analysis.width = 0
                /\ images'[k].analysis.error # ""
         /\ (runs[i].idx < Len(runs[i].list) /\ ~SignalAborted(abortRef, aborted)) =>
              /\ runs'[i].pc = "inflight"
              /\ runs'[i].idx = runs[i].idx + 1]_vars

AllProvidersFailed == models.loaded = {} /\ models.failed = Kinds /\ ~ssdLoaded

NoRunActive == \A i \in 1..Len(runs) : runs[i].pc = "done"

\* C8: when all six providers fail to load, initialize still completes and
\* marks the engine ready, and a batch of N images ends with processed = N,
\* successful = N, errors = 0 and every image holding a category.
FallbackIsNotAnError ==
  /\ (engineCalls > 0 /\ inits = <<>>) => (isReady /\ AllProvidersFailed)
  /\ stats.errors = 0
  /\ stats.successful = stats.processed
  /\ (runs # <<>> /\ NoRunActive) =>
       /\ stats.processed = stats.total
       /\ progress.status = "complete"
  /\ \A k \in 1..Len(images) :
       images[k].processed =>
         /\ images[k].category \in Categories
         /\ images[k].analysis.classification = fallbackClassification(images[k].file)
         /\ images[k].analysis.faces = fallbackFaceDetection(images[k].file)

\* three images processed in one batch on fallbacks alone
FallbackIsNotAnErrorWitness ==
  /\ isReady
  /\ AllProvidersFailed
  /\ runs # <<>>
  /\ NoRunActive
  /\ stats.total = 3
  /\ stats.successful = 3
  /\ stats.errors = 0
  /\ \E k \in 1..Len(images) : images[k].category = "selfies"

\* the stages the settings of a call ask for (the object stage also needs
\* its model)
AskedStages(settings) ==
  {StageOrder[n] : n \in {n \in 1..Len(StageOrder) :
      StageOrder[n] # "objects" /\ StageEnabled(settings, NoModels, StageOrder[n])}}

\* C9: analyze is admitted only when an initialize call has completed and
\* terminate has not been called since; otherwise it raises the
\* not-initialized error and produces no result.
AnalyzeNeedsInitialization ==
  [][(direct' # direct /\ direct'.pc \in {"inflight", "notInitialized"}) =>
       /\ direct'.pc = "inflight" => initializedSince
       /\ direct'.pc = "notInitialized" => direct'.result = NoCall.result]_vars

\* C10: if one enabled stage throws during an analysis, every other enabled
\* stage still has its output in the returned result.
SiblingStagesSurvive ==
  (direct.pc = "returned" /\ direct.result.error # "") =>
    Cardinality(AskedStages(direct.settings) \ direct.result.has) <= 1

(***************************************************************************)
(* Fallback policy of the provider-backed stages                           *)
(***************************************************************************)
\* the result field of each provider, in the order of KindOrder
ProviderStages ==
  <<"classification", "description", "objects", "nsfw", "faces", "ocrText">>

\* the provider is not loaded or is marked failed
ProviderUnavailable(kind) ==
  IF kind = "faceDetection"
    THEN kind \in models.failed \/ ~ssdLoaded
    ELSE kind \notin models.loaded \/ kind \in models.failed

\* stage n of the record a holds the value the stage produces without its
\* provider
HoldsFallback(a, n) ==
  /\ ProviderStages[n] \in a.has
  /\ CASE n = 1 -> a.classification = fallbackClassification(a.file)
       [] n = 2 -> a.description = fallbackCaption(a.file)
       [] n = 3 -> a.objects = <<>>
       [] n = 4 -> a.nsfw = <<[className |-> "Neutral", probability |-> 95]>>
       [] n = 5 -> a.faces = fallbackFaceDetection(a.file)
       [] n = 6 -> a.ocrText = 0

\* the analyze call of the host returns its record in this step
DirectReturns == direct.pc = "inflight" /\ direct'.pc = "returned"

\* C11: each provider-backed stage that is enabled while its provider is not
\* loaded or is marked failed has its fallback value in the returned record;
\* the field is never left absent.
UnavailableProviderFallsBack ==
  [][DirectReturns =>
       \A n \in 1..Len(KindOrder) :
         (KindEnabled(direct.settings, KindOrder[n]) /\ ProviderUnavailable(KindOrder[n]))
           => HoldsFallback(direct'.result, n)]_vars

\* an initialize call begins to load the provider kind in this step: a new
\* call reaches its first load, or a suspended call goes on to its next load
StartsLoad(kind) ==
  \E t \in 1..Len(inits') :
    /\ KindOrder[inits'[t].pc] = kind
    /\ \/ t > Len(inits)
       \/ Len(inits') = Len(inits) /\ inits[t].pc # inits'[t].pc

\* stage n of the record a was produced without calling the provider
ProviderNotUsed(a, n) == IF n = 3 THEN a.objects = <<>> ELSE HoldsFallback(a, n)

\* C12: once a provider's load has failed no initialize call loads that
\* provider again and every analyze uses the fallback for its stage; an
\* initialize call on a ready engine loads nothing and changes no provider
\* state.
FailedLoadNeverRetried ==
  [][/\ \A kind \in models.failed : ~StartsLoad(kind)
     /\ DirectReturns =>
          \A n \in 1..Len(KindOrder) :
            (KindEnabled(direct.settings, KindOrder[n]) /\ KindOrder[n] \in models.failed)
              => ProviderNotUsed(direct'.result, n)
     /\ isReady => Len(inits') <= Len(inits)]_vars

(***************************************************************************)
(* Batch processor: start, exclusion, order                                *)
(***************************************************************************)
\* a processImages call passes its guard and starts a loop in this step
Starts == Len(runs') > Len(runs)

Unprocessed(imgs) == {k \in 1..Len(imgs) : ~imgs[k].processed}

\* C13: processImages starts a run only when no run is in progress (status
\* idle or complete) and some image is unprocessed; a run that starts and
\* suspends has set status processing, stage analysis, and reset the
\* statistics with total = the number of unprocessed images.
StartsOnlyWhenIdleWithWork ==
  [][Starts =>
       /\ NoRunActive
       /\ progress.status \in {"idle", "complete"}
       /\ Unprocessed(images) # {}
       /\ runs'[Len(runs')].pc = "inflight" =>
            /\ progress'.status = "processing"
            /\ progress'.stage = "analysis"
            /\ stats'.total = Cardinality(Unprocessed(images))
            /\ stats'.processed = 0
            /\ stats'.successful = 0
            /\ stats'.errors = 0]_vars

\* C14: at most one image analysis is in flight at any time, whatever the
\* interleaving of processImages and stopProcessing.
SingleAnalysisInFlight ==
  Cardinality({i \in 1..Len(runs) : runs[i].pc = "inflight"}) <= 1

\* C15: no image is analysed more than once: the image whose analysis a run
\* receives is not yet processed, and the analysis of a processed image is
\* never replaced.
NoReanalysis ==
  [][/\ \A i \in 1..Len(runs) :
          Settles(i) =>
            \A k \in 1..Len(images) :
              images[k].id = runs[i].list[runs[i].idx].id => ~images[k].processed
     /\ \A k \in 1..Len(images), n \in 1..Len(images') :
          (images[k].processed /\ images'[n].id = images[k].id) =>
            images'[n].analysis = images[k].analysis]_vars

LiveNext ==
  \/ \E files \in FileBatches : addImages(files)
  \/ processImages
  \/ \E i \in 1..MaxRuns : AnalysisSettles(i)
  \/ stopProcessing
  \/ inits = <<>> /\ InitializeCall(ClassifierOnly, AllOk)
  \/ \E t \in 1..MaxEngineCalls : LoadReturns(t)

LiveSpec ==
  /\ Init
  /\ [][LiveNext]_vars
  /\ \A i \in 1..MaxRuns : WF_vars(AnalysisSettles(i))

\* where the i-th processImages call that started a loop is
RunPc(i) == IF i <= Len(runs) THEN runs[i].pc ELSE "none"

\* C17: every started run eventually finishes: a run that is waiting for an
\* analysis eventually returns, with status complete (or idle) and
\* isProcessing false when it does, whichever of its images fail.
EveryRunFinishes ==
  \A i \in 1..MaxRuns :
    (RunPc(i) = "inflight")
      ~> (/\ RunPc(i) = "done"
          /\ ~isProcessing
          /\ progress.status \in {"complete", "idle"})

\* a run that had an image fail and an image succeed has returned
EveryRunFinishesWitness ==
  /\ RunPc(1) = "done"
  /\ ~isProcessing
  /\ progress.status = "complete"
  /\ stats.successful > 0
  /\ stats.errors > 0

(***************************************************************************)
(* Merge suggestions                                                       *)
(***************************************************************************)
\* C18: when an uncancelled run with duplicate detection enabled completes,
\* the merge suggestions it emits are the groups of the duplicate grouper
\* over all images that are processed with an analysis at that moment, the
\* images processed by this run included.
SuggestionsMatchGrouper ==
  [][\A i \in 1..Len(runs) :
       (Returns(i) /\ ~Cancelled(i) /\ runs[i].options.findDuplicates) =>
         suggestions' =
           suggestions \o MergeSuggestions(findSimilarImages(ProcessedWithAnalysis(images')))]_vars

\* the action of a suggestion is invoked in this step and changes an image
InvokesAction ==
  /\ suggestions' = suggestions
  /\ runs' = runs
  /\ Len(images') = Len(images)
  /\ images' # images

\* after is before with every member of the group but the first in category
\* duplicates and nothing else changed
MergedBy(sug, before, after) ==
  /\ Len(after) = Len(before)
  /\ \A n \in 1..Len(before) :
       IF \E j \in 2..Len(sug.imageIds) : sug.imageIds[j] = before[n].id
         THEN /\ after[n].category = "duplicates"
              /\ [after[n] EXCEPT !.category = before[n].category] = before[n]
         ELSE after[n] = before[n]

\* C19: invoking a merge suggestion's action sets category duplicates on
\* every member of the group except the first and changes nothing else; the
\* suggestion's confidence is the group similarity, 0.9.
MergeActionFrame ==
  [][/\ InvokesAction =>
          \E k \in 1..Len(suggestions) : MergedBy(suggestions[k], images, images')
     /\ \A k \in 1..Len(suggestions') :
          /\ suggestions'[k].type = "merge"
          /\ suggestions'[k].confidence = 90]_vars

\* the action of a suggestion has been invoked on a group of two images
MergeActionFrameWitness ==
  \E k \in 1..Len(suggestions) :
    /\ Len(suggestions[k].imageIds) = 2
    /\ \E a, b \in 1..Len(images) :
         /\ images[a].id = suggestions[k].imageIds[1]
         /\ images[b].id = suggestions[k].imageIds[2]
         /\ images[a].category = "nature"
         /\ images[b].category = "duplicates"

\* C20: creating a merge suggestion changes no image, categories stay as
\* they are until the action is invoked; invoking the same action twice
\* leaves the collection as invoking it once does.
MergeIsDeferredAndIdempotent ==
  [][/\ Len(suggestions') > Len(suggestions) =>
          /\ Len(images') = Len(images)
          /\ \A n \in 1..Len(images) :
               /\ images'[n].category = "duplicates" => images[n].category = "duplicates"
               /\ (\E k \in (Len(suggestions) + 1)..Len(suggestions') :
                     \E j \in 1..Len(suggestions'[k].imageIds) :
                       suggestions'[k].imageIds[j] = images[n].id)
                   => images'[n] = images[n]
     /\ InvokesAction =>
          \A k \in 1..Len(suggestions) :
            images' = ApplyMerge(images, suggestions[k].imageIds) =>
              ApplyMerge(images', suggestions[k].imageIds) = images']_vars

\* a suggestion exists for two images of the collection and its action has
\* not been invoked
MergeIsDeferredAndIdempotentWitness ==
  /\ Len(suggestions) > 0
  /\ \A j \in 1..Len(suggestions[1].imageIds) :
       \E n \in 1..Len(images) : images[n].id = suggestions[1].imageIds[j]
  /\ \A n \in 1..Len(images) : images[n].category # "duplicates"

(***************************************************************************)
(* Categories                                                              *)
(***************************************************************************)
\* C21: every image whose processed flag is true holds exactly one category
\* of the closed enumeration, whether its analysis succeeded or failed.
ProcessedHasCategory ==
  \A k \in 1..Len(images) : images[k].processed => images[k].category \in Categories

\* the category of image k is replaced in this step
Recategorized(k) ==
  /\ images[k].category \in Categories
  /\ \E n \in 1..Len(images') :
       /\ images'[n].id = images[k].id
       /\ images'[n].category # images[k].category

\* C22: once an image has a category only the action of a merge suggestion
\* changes it, and only to duplicates; no later run, stop or other operation
\* of the hook reassigns it.
CategoryIsFinal ==
  [][\A k \in 1..Len(images) :
       Recategorized(k) =>
         /\ InvokesAction
         /\ \A n \in 1..Len(images') :
              images'[n].id = images[k].id => images'[n].category = "duplicates"]_vars

\* the host initializes the engine twice before the first call has finished,
\* and the network fails the loads of one of the two calls
ReloadNext ==
  \/ addImages(<<"IMG_1.jpg">>)
  \/ processImages
  \/ \E i \in 1..MaxRuns : AnalysisSettles(i)
  \/ stopProcessing
  \/ \E plan \in {AllOk, AllFail} : InitializeCall(ClassifierOnly, plan)
  \/ \E t \in 1..MaxEngineCalls : LoadReturns(t)

ReloadSpec == Init /\ [][ReloadNext]_vars

(***************************************************************************)
(* The categorizer applied by the host to an analysis it obtained under    *)
(* settings of its own                                                     *)
(***************************************************************************)
FaceCounts == {0, 1, 3}

\* lengths of the recognised text
TextLengths == {0, 50, 51, 120}

ClassificationInputs ==
  {<<>>,
   <<[label |-> "image", score |-> 60]>>,
   <<[label |-> "person", score |-> 90]>>,
   <<[label |-> "Landscape", score |-> 80], [label |-> "food", score |-> 10]>>,
   <<[label |-> "screenshot", score |-> 95]>>,
   <<[label |-> "image", score |-> 60], [label |-> "food", score |-> 30]>>,
   <<[label |-> "carpet", score |-> 70]>>,
   <<[label |-> "Cart", score |-> 70]>>}

\* probabilities in hundredths
NsfwInputs ==
  {<<>>,
   <<[className |-> "Neutral", probability |-> 95]>>,
   <<[className |-> "Porn", probability |-> 60]>>,
   <<[className |-> "Porn", probability |-> 70]>>,
   <<[className |-> "Porn", probability |-> 71]>>,
   <<[className |-> "Neutral", probability |-> 20], [className |-> "Sexy", probability |-> 80]>>}

ThresholdChoices == {50, 70, 90}

AnalysisInputs ==
  {[NewAnalysis("") EXCEPT !.faces = n, !.ocrText = t, !.classification = c, !.nsfw = p] :
     n \in FaceCounts, t \in TextLengths, c \in ClassificationInputs, p \in NsfwInputs}

\* the host holds an analysis made under its settings
CategorizerInit ==
  /\ Init!1 /\ Init!2 /\ Init!3 /\ Init!4 /\ Init!5 /\ Init!6 /\ Init!7 /\ Init!8
  /\ Init!9 /\ Init!10 /\ Init!11 /\ Init!12 /\ Init!13 /\ Init!14 /\ Init!15
  /\ Init!16 /\ Init!18
  /\ \E a \in AnalysisInputs, t \in ThresholdChoices :
       direct = [pc |-> "analysed", file |-> "", result |-> a, category |-> "",
                 settings |-> [defaultAiSettings EXCEPT !.nsfwThreshold = t]]

\* aiEngine.categorizeImage(analysis)
CategorizeCall ==
  /\ direct.pc = "analysed"
  /\ direct' = [direct EXCEPT !.pc = "categorized",
                              !.category = categorizeImage(direct.result)]
  /\ UNCHANGED engineVars
  /\ UNCHANGED hookVars

CategorizerSpec == CategorizerInit /\ [][CategorizeCall]_vars

Categorized == direct.pc = "categorized"

\* C23: the categorizer returns selfies for every analysis with a non-empty
\* face list, whatever its text, labels and NSFW predictions, a prediction
\* above 0.7 included.
FacesWin ==
  (Categorized /\ direct.result.faces > 0) => direct.category = "selfies"

\* an analysis with faces, long text, a keyword label and a prediction above
\* 0.7 has been categorized
FacesWinWitness ==
  /\ Categorized
  /\ direct.result.faces = 3
  /\ direct.result.ocrText = 120
  /\ Len(direct.result.classification) = 2
  /\ \E k \in 1..Len(direct.result.nsfw) : direct.result.nsfw[k].probability > 70
  /\ direct.category = "selfies"

\* C24: with no faces, text longer than 50 characters gives documents
\* whatever the labels and the NSFW predictions; text of 50 characters or
\* fewer never gives documents.
LongTextIsDocument ==
  (Categorized /\ direct.result.faces = 0) =>
    (direct.category = "documents" <=> direct.result.ocrText > 50)

\* an analysis without faces, with 120 characters of text, a keyword label
\* and a prediction above 0.7 has been categorized
LongTextIsDocumentWitness ==
  /\ Categorized
  /\ direct.result.faces = 0
  /\ direct.result.ocrText = 120
  /\ Len(direct.result.classification) = 2
  /\ \E k \in 1..Len(direct.result.nsfw) : direct.result.nsfw[k].probability > 70
  /\ direct.category = "documents"

\* the words the label rules of the categorizer look for
LabelKeywords ==
  {"screen", "computer", "nature", "landscape", "mountain", "beach", "food",
   "meal", "dish", "art", "painting", "pet", "animal", "car", "vehicle",
   "building", "architecture"}

\* no face, no long text and no label rule applies to the analysis
ReachesNsfwRule(a) ==
  /\ a.faces = 0
  /\ a.ocrText <= 50
  /\ \/ Len(a.classification) = 0
     \/ ~LabelHas(toLowerCase(Chars(a.classification[1].label)), LabelKeywords)

\* C25: with no face, text or keyword match, the category is nsfw exactly
\* when some NSFW prediction has a probability above the nsfwThreshold of the
\* settings.
NsfwRuleUsesThreshold ==
  (Categorized /\ ReachesNsfwRule(direct.result)) =>
    (direct.category = "nsfw" <=>
       \E k \in 1..Len(direct.result.nsfw) :
         direct.result.nsfw[k].probability > direct.settings.nsfwThreshold)

(***************************************************************************)
(* The pixel stages of analyze (hash, quality, palette) computed on the    *)
(* canvases.  An image is its width, its height, the grey level of its     *)
(* pixels row by row (r = g = b = level) and the alpha of its pixels.      *)
(* Numbers with decimals are kept in thousandths (ten-thousandths while    *)
(* they are summed), square roots to one decimal.                          *)
(***************************************************************************)
PaletteSide == 2

Repeats == 2

MaxQualitySide == 400

PaletteColors == 5

Iterations == 20

Uniform(w, h, level, alpha) ==
  [width |-> w, height |-> h, level |-> [i \in 1..(w * h) |-> level], alpha |-> alpha]

PixelInputs ==
  {Uniform(0, 0, 0, 255),
   Uniform(1, 1, 0, 255),
   Uniform(1, 1, 255, 255),
   Uniform(1, 1, 128, 255),
   Uniform(2, 2, 200, 255),
   Uniform(3, 3, 77, 255),
   [width |-> 2, height |-> 1, level |-> <<10, 250>>, alpha |-> 255],
   [width |-> 2, height |-> 2, level |-> <<0, 255, 255, 0>>, alpha |-> 255],
   [width |-> 2, height |-> 2, level |-> <<0, 255, 255, 0>>, alpha |-> 0],
   [width |-> 3, height |-> 3, alpha |-> 255,
    level |-> [i \in 1..9 |-> IF i = 5 THEN 255 ELSE 0]],
   [width |-> 5, height |-> 5, alpha |-> 255,
    level |-> [i \in 1..25 |-> IF ((i - 1) % 5) % 4 < 2 THEN 0 ELSE 255]]}

Min(a, b) == IF a < b THEN a ELSE b

Abs(a) == IF a < 0 THEN 0 - a ELSE a

\* ctx.drawImage(img, 0, 0, w, h) on a fresh canvas of w x h: the image
\* scaled to the canvas, sample (x, y) taken from the pixel it falls on; an
\* image without pixels leaves the canvas transparent black
drawImage(img, w, h) ==
  IF img.width = 0 \/ img.height = 0
    THEN [width |-> w, height |-> h, level |-> [i \in 1..(w * h) |-> 0], alpha |-> 0]
    ELSE [width |-> w, height |-> h, alpha |-> img.alpha,
          level |-> [i \in 1..(w * h) |->
                       LET x == (i - 1) % w
                           y == (i - 1) \div w
                       IN img.level[((y * img.height) \div h) * img.width
                                      + ((x * img.width) \div w) + 1]]]

\* Math.sqrt, rounded down
RECURSIVE IsqrtIn(_, _, _)
IsqrtIn(x, lo, hi) ==
  IF lo = hi THEN lo
  ELSE LET mid == (lo + hi + 1) \div 2 IN
       IF mid * mid <= x THEN IsqrtIn(x, mid, hi) ELSE IsqrtIn(x, lo, mid - 1)

\* ten times the square root of x
Sqrt10(x) == IsqrtIn(100 * x, 0, 46340)

\* num / den rounded to the nearest integer, as toFixed and Math.round do
Round(num, den) == (2 * num + den) \div (2 * den)

\* brightness of the pixel at column x, row y of the canvas
At(c, x, y) == c.level[y * c.width + x + 1]

\* ten times the sum of the Sobel magnitudes over the interior pixels
calculateSharpness(c) ==
  LET Magnitude(x, y) ==
        LET tl == At(c, x - 1, y - 1)
            tm == At(c, x, y - 1)
            tr == At(c, x + 1, y - 1)
            ml == At(c, x - 1, y)
            mr == At(c, x + 1, y)
            bl == At(c, x - 1, y + 1)
            bm == At(c, x, y + 1)
            br == At(c, x + 1, y + 1)
            sobelX == (0 - tl) + tr - 2 * ml + 2 * mr - bl + br
            sobelY == (0 - tl) - 2 * tm - tr + bl + 2 * bm + br
        IN Sqrt10(sobelX * sobelX + sobelY * sobelY)
  IN SumSeq([k \in 1..((IF c.width > 2 THEN c.width - 2 ELSE 0)
                         * (IF c.height > 2 THEN c.height - 2 ELSE 0)) |->
               LET iw == c.width - 2 IN
               Magnitude(1 + ((k - 1) % iw), 1 + ((k - 1) \div iw))])

\* analyzeQuality with sharpnessScore = sharpness, without Math.min
QualityOf_Unclamped(img) ==
  LET c == drawImage(img, Min(img.width, MaxQualitySide), Min(img.height, MaxQualitySide))
      n == c.width * c.height
      totalBrightness == SumSeq(c.level)
      variance == n * SumSeq([i \in 1..n |-> c.level[i] * c.level[i]])
                    - totalBrightness * totalBrightness
  IN [sharpness |-> Round(1000 * calculateSharpness(c), 2550 * n),
      contrast |-> Round(1000 * Sqrt10(variance), 2550 * n),
      brightness |-> Round(1000 * totalBrightness, 255 * n),
      score |-> Round(10000 - Round(10000 * Abs(totalBrightness - 128 * n), 128 * n)
                        + Min(2 * Round(10000 * Sqrt10(variance), 2550 * n), 10000)
                        + Round(10000 * calculateSharpness(c), 2550 * n), 30)]

\* analyzeQuality on the image: the four metrics, in thousandths
QualityOf(img) ==
  LET c == drawImage(img, Min(img.width, MaxQualitySide), Min(img.height, MaxQualitySide))
      n == c.width * c.height
      totalBrightness == SumSeq(c.level)
      \* n * n * (contrastSum / n), with avgBrightness = totalBrightness / n
      variance == n * SumSeq([i \in 1..n |-> c.level[i] * c.level[i]])
                    - totalBrightness * totalBrightness
      deviation10 == Sqrt10(variance)
      sharpness10 == calculateSharpness(c)
      brightnessScore == 10000 - Round(10000 * Abs(totalBrightness - 128 * n), 128 * n)
      contrastScore == Min(2 * Round(10000 * deviation10, 2550 * n), 10000)
      sharpnessScore == Min(Round(10000 * sharpness10, 2550 * n), 10000)
  IN [sharpness |-> Round(sharpnessScore, 10),
      contrast |-> Round(1000 * deviation10, 2550 * n),
      brightness |-> Round(1000 * totalBrightness, 255 * n),
      score |-> Round(brightnessScore + contrastScore + sharpnessScore, 30)]

\* the pixels kept for the palette: those with alpha above 128
PalettePixels(img) ==
  LET c == drawImage(img, PaletteSide, PaletteSide) IN
  IF c.alpha > 128
    THEN [i \in 1..Len(c.level) |-> <<c.level[i], c.level[i], c.level[i]>>]
    ELSE <<>>

\* a centroid is the sum of the pixels of its cluster and their number
CentroidAt(pixel) == [sum |-> pixel, n |-> 1]

\* the squared distance from the pixel to the centroid, times c.n * c.n
Distance2(pixel, c) ==
  (pixel[1] * c.n - c.sum[1]) * (pixel[1] * c.n - c.sum[1])
  + (pixel[2] * c.n - c.sum[2]) * (pixel[2] * c.n - c.sum[2])
  + (pixel[3] * c.n - c.sum[3]) * (pixel[3] * c.n - c.sum[3])

\* distance to centroid a is less than distance to centroid b
Nearer(pixel, a, b) ==
  Distance2(pixel, a) * b.n * b.n < Distance2(pixel, b) * a.n * a.n

\* the first centroid at the least distance from the pixel
RECURSIVE ClosestFrom(_, _, _, _)
ClosestFrom(pixel, centroids, j, closestCentroid) ==
  IF j > Len(centroids) THEN closestCentroid
  ELSE IF Nearer(pixel, centroids[j], centroids[closestCentroid])
    THEN ClosestFrom(pixel, centroids, j + 1, j)
    ELSE ClosestFrom(pixel, centroids, j + 1, closestCentroid)

\* one iteration: the pixels assigned, every centroid of a cluster that is
\* not empty moved to the average of its cluster
Recenter(pixels, centroids) ==
  LET closest == [i \in 1..Len(pixels) |-> ClosestFrom(pixels[i], centroids, 2, 1)] IN
  [j \in 1..Len(centroids) |->
     LET cluster == SelectSeq([i \in 1..Len(pixels) |-> i], LAMBDA i : closest[i] = j) IN
     IF Len(cluster) > 0
       THEN [sum |-> <<SumSeq([m \in 1..Len(cluster) |-> pixels[cluster[m]][1]]),
                       SumSeq([m \in 1..Len(cluster) |-> pixels[cluster[m]][2]]),
                       SumSeq([m \in 1..Len(cluster) |-> pixels[cluster[m]][3]])>>,
             n |-> Len(cluster)]
       ELSE centroids[j]]

\* the iterations that are left; an iteration that moves no centroid is
\* repeated unchanged by all that follow it
RECURSIVE Iterate(_, _, _)
Iterate(pixels, centroids, iteration) ==
  IF iteration >= Iterations THEN centroids
  ELSE CHOOSE r \in {IF next = centroids THEN centroids
                     ELSE Iterate(pixels, next, iteration + 1) :
                       next \in {Recenter(pixels, centroids)}} : TRUE

\* picks[i] is the pixel that Math.random() selects for centroid i
kMeansClustering(pixels, picks) ==
  Iterate(pixels, [i \in 1..PaletteColors |-> CentroidAt(picks[i])], 0)

\* Math.round(c).toString(16).padStart(2, "0"), the digits as numbers
Hex2(c) == LET r == Round(c.num, c.den) IN <<r \div 16, r % 16>>

\* extractColorPalette on the image: "#rrggbb" for each centroid
PaletteOf(img, picks) ==
  LET palette == kMeansClustering(PalettePixels(img), picks) IN
  [j \in 1..Len(palette) |->
     Hex2([num |-> palette[j].sum[1], den |-> palette[j].n])
       \o Hex2([num |-> palette[j].sum[2], den |-> palette[j].n])
       \o Hex2([num |-> palette[j].sum[3], den |-> palette[j].n])]

\* what Math.random() may select: for each centroid one of the kept pixels
PickChoices(img) ==
  [1..PaletteColors -> {PalettePixels(img)[i] : i \in 1..Len(PalettePixels(img))}]

\* stages 7 to 9 of analyze on the image: a stage that raises ends the block
PixelStages(img, picks) ==
  LET pHash == HashBits(drawImage(img, HashSide, HashSide).level) IN
  IF Min(img.width, MaxQualitySide) = 0 \/ Min(img.height, MaxQualitySide) = 0
    THEN [has |-> {"pHash"}, pHash |-> pHash, quality |-> "", palette |-> <<>>,
          error |-> "Analysis error"]
  ELSE IF PalettePixels(img) = <<>>
    THEN [has |-> {"pHash", "quality"}, pHash |-> pHash, quality |-> QualityOf(img),
          palette |-> <<>>, error |-> "Analysis error"]
  ELSE [has |-> {"pHash", "quality", "palette"}, pHash |-> pHash,
        quality |-> QualityOf(img), palette |-> PaletteOf(img, picks), error |-> ""]

\* the host holds a decoded image
PixelInit ==
  /\ Init!1 /\ Init!2 /\ Init!3 /\ Init!4 /\ Init!5 /\ Init!6 /\ Init!7 /\ Init!8
  /\ Init!9 /\ Init!10 /\ Init!11 /\ Init!12 /\ Init!13 /\ Init!14 /\ Init!15
  /\ Init!16 /\ Init!18
  /\ \E img \in PixelInputs : direct = [pc |-> "pixels", image |-> img, results |-> <<>>]

\* one more analysis of the image
AnalyzePixels ==
  /\ direct.pc = "pixels"
  /\ Len(direct.results) < Repeats
  /\ \E picks \in IF PalettePixels(direct.image) = <<>>
                    THEN {<<>>} ELSE PickChoices(direct.image) :
       \E r \in {PixelStages(direct.image, picks)} :
         direct' = [direct EXCEPT !.results = Append(@, r)]
  /\ UNCHANGED engineVars
  /\ UNCHANGED hookVars

PixelSpec == PixelInit /\ [][AnalyzePixels]_vars

\* C26: repeated analyses of one image under the same engine state give an
\* identical perceptual hash, identical quality metrics and an identical
\* colour palette.
RepeatedAnalysesAgree ==
  direct.pc = "pixels" =>
    \A i, j \in 1..Len(direct.results) :
      /\ direct.results[i].pHash = direct.results[j].pHash
      /\ direct.results[i].quality = direct.results[j].quality
      /\ direct.results[i].palette = direct.results[j].palette

\* every pixel of the image has the same colour
UniformColour(img) == \A i, j \in 1..Len(img.level) : img.level[i] = img.level[j]

\* C30: sharpness, contrast, brightness and composite score of every quality
\* record lie in [0,1] (0 to 1000 thousandths); an image of 1x1 or of one
\* colour gets a record, without a division by zero, and its contrast is 0.
QualityInRange ==
  direct.pc = "pixels" =>
    \A k \in 1..Len(direct.results) :
      LET r == direct.results[k] IN
      /\ "quality" \in r.has =>
           /\ r.quality.sharpness \in 0..1000
           /\ r.quality.contrast \in 0..1000
           /\ r.quality.brightness \in 0..1000
           /\ r.quality.score \in 0..1000
      /\ (direct.image.width > 0 /\ UniformColour(direct.image)) =>
           /\ "quality" \in r.has
           /\ r.quality.contrast = 0

\* the 1x1 white image has been measured: brightness 1, contrast 0
QualityInRangeWitness ==
  /\ direct.pc = "pixels"
  /\ Len(direct.results) > 0
  /\ direct.image.width = 1
  /\ direct.image.height = 1
  /\ direct.results[1].quality.brightness = 1000
  /\ direct.results[1].quality.contrast = 0
  /\ direct.results[1].quality.sharpness = 0

(***************************************************************************)
(* The duplicate grouper applied by the host to a list of analysed images  *)
(***************************************************************************)
FullHashLength == 1024

ShortHashLength == 20

\* a hash of the given length whose first `ones` bits are 1
HashWith(length, ones) == [i \in 1..length |-> IF i <= ones THEN 1 ELSE 0]

HashInputs ==
  {<<>>,
   HashWith(FullHashLength, 0),
   HashWith(FullHashLength, 153),
   HashWith(FullHashLength, 154),
   HashWith(FullHashLength, 306),
   HashWith(ShortHashLength, 0),
   HashWith(ShortHashLength, 2),
   HashWith(ShortHashLength, 3)}

\* the lists of up to MaxImages images, the ids in the order of the list
ImageLists ==
  UNION {[1..n -> HashInputs] : n \in 0..MaxImages}

AsImages(hashes) ==
  [k \in 1..Len(hashes) |-> [id |-> k, analysis |-> [pHash |-> hashes[k]]]]

GrouperInit ==
  /\ Init!1 /\ Init!2 /\ Init!3 /\ Init!4 /\ Init!5 /\ Init!6 /\ Init!7 /\ Init!8
  /\ Init!9 /\ Init!10 /\ Init!11 /\ Init!12 /\ Init!13 /\ Init!14 /\ Init!15
  /\ Init!16 /\ Init!18
  /\ \E hashes \in ImageLists :
       direct = [pc |-> "listed", images |-> AsImages(hashes), groups |-> <<>>,
                 compared |-> <<>>]

\* aiEngine.findSimilarImages(images)
FindSimilarCall ==
  /\ direct.pc = "listed"
  /\ direct' = [direct EXCEPT !.pc = "grouped",
                              !.groups = findSimilarImages(direct.images)]
  /\ UNCHANGED engineVars
  /\ UNCHANGED hookVars

\* calculateHashSimilarity on the hashes of two images of the list, in both
\* orders
CompareCall(i, j) ==
  /\ direct.pc = "listed"
  /\ direct.compared = <<>>
  /\ i \in 1..Len(direct.images)
  /\ j \in 1..Len(direct.images)
  /\ direct.images[i].analysis.pHash # <<>>
  /\ direct.images[j].analysis.pHash # <<>>
  /\ direct' =
       [direct EXCEPT !.compared =
          <<[hash1 |-> direct.images[i].analysis.pHash,
             hash2 |-> direct.images[j].analysis.pHash,
             similarity |-> calculateHashSimilarity(direct.images[i].analysis.pHash,
                                                    direct.images[j].analysis.pHash),
             reversed |-> calculateHashSimilarity(direct.images[j].analysis.pHash,
                                                  direct.images[i].analysis.pHash)]>>]
  /\ UNCHANGED engineVars
  /\ UNCHANGED hookVars

GrouperNext ==
  \/ FindSimilarCall
  \/ \E i, j \in 1..MaxImages : CompareCall(i, j)

GrouperSpec == GrouperInit /\ [][GrouperNext]_vars

Grouped == direct.pc = "grouped"

\* the ids of the group
Members(g) == {g.group[m] : m \in 1..Len(g.group)}

\* images i and j of the list are members of one emitted group
InOneGroup(i, j) ==
  \E n \in 1..Len(direct.groups) :
    {direct.images[i].id, direct.images[j].id} \subseteq Members(direct.groups[n])

\* C27: the grouper emits only groups of at least 2 members, and two images
\* of the input that carry the same non-empty hash are in the same emitted
\* group, wherever they stand in the input and whatever else it holds.
IdenticalHashesShareGroup ==
  Grouped =>
    /\ \A n \in 1..Len(direct.groups) : Len(direct.groups[n].group) >= 2
    /\ \A i, j \in 1..Len(direct.images) :
         (i # j /\ direct.images[i].analysis.pHash # <<>>
            /\ direct.images[i].analysis.pHash = direct.images[j].analysis.pHash)
           => InOneGroup(i, j)

\* two images with the same hash stand first and last, an image with
\* another hash between them, and the two are grouped
IdenticalHashesShareGroupWitness ==
  /\ Grouped
  /\ Len(direct.images) = 3
  /\ direct.images[1].analysis.pHash = HashWith(FullHashLength, 306)
  /\ direct.images[2].analysis.pHash = HashWith(FullHashLength, 0)
  /\ direct.images[3].analysis.pHash = HashWith(FullHashLength, 306)
  /\ direct.groups = <<[group |-> <<1, 3>>, similarity |-> 90]>>

\* the number of positions in which two hashes of one length differ
Differing(hash1, hash2) ==
  Cardinality({k \in 1..Len(hash1) : hash1[k] # hash2[k]})

\* images i < j of the list carry 1024-bit hashes that differ in at most 153
\* positions
NearDuplicates(i, j) ==
  /\ i < j
  /\ Len(direct.images[i].analysis.pHash) = FullHashLength
  /\ Len(direct.images[j].analysis.pHash) = FullHashLength
  /\ Differing(direct.images[i].analysis.pHash, direct.images[j].analysis.pHash) <= 153

\* images i < j carry 1024-bit hashes that differ in 154 positions or more,
\* or hashes of one length of which exactly 85 in 100 positions match
NotNearEnough(i, j) ==
  /\ i < j
  /\ direct.images[i].analysis.pHash # <<>>
  /\ Len(direct.images[i].analysis.pHash) = Len(direct.images[j].analysis.pHash)
  /\ LET differ == Differing(direct.images[i].analysis.pHash,
                             direct.images[j].analysis.pHash)
         length == Len(direct.images[i].analysis.pHash) IN
     \/ length = FullHashLength /\ differ >= 154
     \/ (length - differ) * 100 = 85 * length

\* image j has joined the group that image i started
GroupedOnPair(i, j) ==
  \E n \in 1..Len(direct.groups) :
    /\ direct.groups[n].group[1] = direct.images[i].id
    /\ direct.images[j].id \in Members(direct.groups[n])

\* image i has joined the group started by another image than i and j
TakenByOther(i, j) ==
  \E n \in 1..Len(direct.groups) :
    /\ direct.groups[n].group[1] \notin {direct.images[i].id, direct.images[j].id}
    /\ direct.images[i].id \in Members(direct.groups[n])

\* every emitted group has similarity 0.9, and no pair that is not near
\* enough is grouped on the strength of that pair
StrictThreshold ==
  /\ \A n \in 1..Len(direct.groups) : direct.groups[n].similarity = 90
  /\ \A i, j \in 1..Len(direct.images) : NotNearEnough(i, j) => ~GroupedOnPair(i, j)

\* C28 as stated: two images whose 1024-bit hashes differ in at most 153
\* positions are in one group with similarity 0.9; a pair that differs in
\* 154 positions or more, or whose similarity is exactly 0.85, is not
\* grouped on the strength of that pair.
NearDuplicatesGrouped ==
  Grouped =>
    /\ \A i, j \in 1..Len(direct.images) : NearDuplicates(i, j) => InOneGroup(i, j)
    /\ StrictThreshold

\* C28, amended: two images whose 1024-bit hashes differ in at most 153
\* positions are in one group with similarity 0.9 unless one of them has
\* joined the group started by an earlier image; a pair that differs in 154
\* positions or more, or whose similarity is exactly 0.85, is not grouped on
\* the strength of that pair.
NearDuplicatesGroupedUnlessTaken ==
  Grouped =>
    /\ \A i, j \in 1..Len(direct.images) :
         NearDuplicates(i, j) =>
           InOneGroup(i, j) \/ TakenByOther(i, j) \/ TakenByOther(j, i)
    /\ Len(direct.images) = 2 /\ NearDuplicates(1, 2) =>
         direct.groups = <<[group |-> <<1, 2>>, similarity |-> 90]>>
    /\ StrictThreshold

\* the input held only two images whose hashes differ in 153 positions, and
\* they are grouped
NearDuplicatesGroupedWitness ==
  /\ Grouped
  /\ Len(direct.images) = 2
  /\ Differing(direct.images[1].analysis.pHash, HashWith(FullHashLength, 0)) = 0
  /\ Differing(direct.images[2].analysis.pHash, HashWith(FullHashLength, 0)) = 153
  /\ direct.groups = <<[group |-> <<1, 2>>, similarity |-> 90]>>

\* C29: calculateHashSimilarity is symmetric, is matches / length for hashes
\* of one length (1 for identical hashes) and 0 for hashes of different
\* lengths; the grouper returns on input of mixed lengths and puts no two
\* hashes of different lengths in a group started by one of them.
SimilarityIsSymmetric ==
  /\ (direct.pc = "listed" /\ direct.compared # <<>>) =>
       LET c == direct.compared[1] IN
       /\ c.similarity.num * c.reversed.den = c.reversed.num * c.similarity.den
       /\ c.similarity.den > 0
       /\ Len(c.hash1) = Len(c.hash2) =>
            /\ c.similarity.num * Len(c.hash1)
                 = (Len(c.hash1) - Differing(c.hash1, c.hash2)) * c.similarity.den
            /\ c.hash1 = c.hash2 => c.similarity.num = c.similarity.den
       /\ Len(c.hash1) # Len(c.hash2) => c.similarity.num = 0
  /\ Grouped =>
       \A i, j \in 1..Len(direct.images) :
         Len(direct.images[i].analysis.pHash) # Len(direct.images[j].analysis.pHash)
           => ~GroupedOnPair(i, j)

\* two hashes of different lengths have been compared in both orders
SimilarityIsSymmetricWitness ==
  /\ direct.pc = "listed"
  /\ direct.compared # <<>>
  /\ Len(direct.compared[1].hash1) = FullHashLength
  /\ Len(direct.compared[1].hash2) = ShortHashLength
  /\ direct.compared[1].similarity.num = 0
  /\ direct.compared[1].reversed.num = 0

\* C31: whenever the palette stage runs, the palette has exactly k (5)
\* entries, each of 6 hexadecimal digits, for every image, an image all of
\* whose pixels are left out as near-transparent included.
PaletteHasKColours ==
  direct.pc = "pixels" =>
    \A n \in 1..Len(direct.results) :
      LET r == direct.results[n] IN
      "quality" \in r.has =>
        /\ "palette" \in r.has
        /\ Len(r.palette) = PaletteColors
        /\ \A j \in 1..Len(r.palette) :
             /\ Len(r.palette[j]) = 6
             /\ \A d \in 1..6 : r.palette[j][d] \in 0..15

\* every NSFW prediction of the analysis is of class Neutral
OnlyNeutral(a) == \A k \in 1..Len(a.nsfw) : a.nsfw[k].className = "Neutral"

\* C32: an image analysed while the NSFW provider is unavailable gets the
\* neutral default and is not categorized nsfw by it: with no faces, at most
\* 50 characters of text and no keyword label its category is general; a
\* prediction of class Neutral never gives nsfw.
NeutralIsNotNsfw ==
  \A k \in 1..Len(images) :
    (images[k].category \in Categories /\ OnlyNeutral(images[k].analysis)) =>
      /\ images[k].category # "nsfw"
      /\ ReachesNsfwRule(images[k].analysis) => images[k].category = "general"

\* the label rules in the order the categorizer tries them
KeywordGroups ==
  <<[category |-> "screenshots",  words |-> {"screen", "computer"}],
    [category |-> "nature",       words |-> {"nature", "landscape", "mountain", "beach"}],
    [category |-> "food",         words |-> {"food", "meal", "dish"}],
    [category |-> "art",          words |-> {"art", "painting"}],
    [category |-> "pets",         words |-> {"pet", "animal"}],
    [category |-> "vehicles",     words |-> {"car", "vehicle"}],
    [category |-> "architecture", words |-> {"building", "architecture"}]>>

\* the groups of which a word occurs in the lower-cased top label
MatchingGroups(a) ==
  IF Len(a.classification) = 0 THEN {}
  ELSE {n \in 1..Len(KeywordGroups) :
          LabelHas(toLowerCase(Chars(a.classification[1].label)), KeywordGroups[n].words)}

\* C33: with no faces and at most 50 characters of text only the top label
\* is inspected, case-insensitively; the keyword groups are tried in the
\* order screenshots, nature, food, art, pets, vehicles, architecture and the
\* first that matches wins; the NSFW rule applies only when none matches,
\* and otherwise the category is general.
FirstMatchingGroupWins ==
  (Categorized /\ direct.result.faces = 0 /\ direct.result.ocrText <= 50) =>
    LET matching == MatchingGroups(direct.result) IN
    IF matching # {}
      THEN direct.category =
             KeywordGroups[CHOOSE n \in matching : \A m \in matching : n <= m].category
    ELSE IF \E k \in 1..Len(direct.result.nsfw) : direct.result.nsfw[k].probability > 70
      THEN direct.category = "nsfw"
    ELSE direct.category = "general"

\* a top label that holds a vehicle word and a pet word has been
\* categorized, with a prediction above 0.7 in the analysis
FirstMatchingGroupWinsWitness ==
  /\ Categorized
  /\ direct.result.faces = 0
  /\ direct.result.ocrText = 50
  /\ MatchingGroups(direct.result) = {5, 6}
  /\ \E k \in 1..Len(direct.result.nsfw) : direct.result.nsfw[k].probability > 70
  /\ direct.category = "pets"

\* the hash of the image of the list with the given id
HashOfId(id) == direct.images[CHOOSE k \in 1..Len(direct.images) : direct.images[k].id = id].analysis.pHash

\* the image is a member, but not the first, of an emitted group
JoinedAGroup(id) ==
  \E n \in 1..Len(direct.groups) :
    \E m \in 2..Len(direct.groups[n].group) : direct.groups[n].group[m] = id

\* C34: in every emitted group the first member carries a hash and no
\* earlier image that was still ungrouped could have taken it; every other
\* member comes later in the input and has similarity > 0.85 with the first
\* member, so an image similar only to another member is not in the group.
GroupsAreAnchored ==
  Grouped =>
    \A n \in 1..Len(direct.groups) :
      LET g == direct.groups[n].group IN
      /\ HashOfId(g[1]) # <<>>
      /\ ~JoinedAGroup(g[1])
      /\ \A e \in 1..Len(direct.images) :
           (direct.images[e].id < g[1] /\ direct.images[e].analysis.pHash # <<>>
              /\ IsSimilar(calculateHashSimilarity(direct.images[e].analysis.pHash,
                                                   HashOfId(g[1]))))
             => JoinedAGroup(direct.images[e].id)
      /\ \A m \in 2..Len(g) :
           /\ g[m] > g[m - 1]
           /\ IsSimilar(calculateHashSimilarity(HashOfId(g[1]), HashOfId(g[m])))

\* the second image is similar to the first and to the third, the third is
\* not similar to the first: the group holds the first two only
GroupsAreAnchoredWitness ==
  /\ Grouped
  /\ Len(direct.images) = 3
  /\ direct.images[1].analysis.pHash = HashWith(FullHashLength, 0)
  /\ direct.images[2].analysis.pHash = HashWith(FullHashLength, 153)
  /\ direct.images[3].analysis.pHash = HashWith(FullHashLength, 306)
  /\ direct.groups = <<[group |-> <<1, 2>>, similarity |-> 90]>>

\* lists of MaxImages + 2 images, enough for two groups and an image left
\* over, over fewer hashes
FewHashes ==
  {<<>>,
   HashWith(FullHashLength, 0),
   HashWith(FullHashLength, 153),
   HashWith(FullHashLength, 306),
   HashWith(ShortHashLength, 0)}

LongLists == [1..(MaxImages + 2) -> FewHashes]

LongListInit ==
  /\ Init!1 /\ Init!2 /\ Init!3 /\ Init!4 /\ Init!5 /\ Init!6 /\ Init!7 /\ Init!8
  /\ Init!9 /\ Init!10 /\ Init!11 /\ Init!12 /\ Init!13 /\ Init!14 /\ Init!15
  /\ Init!16 /\ Init!18
  /\ \E hashes \in LongLists :
       direct = [pc |-> "listed", images |-> AsImages(hashes), groups |-> <<>>,
                 compared |-> <<>>]

LongListSpec == LongListInit /\ [][FindSimilarCall]_vars

\* C39: the groups of one call are pairwise disjoint: no id is in two groups
\* or twice in one group, and an image without a hash is in no group.
GroupsAreDisjoint ==
  Grouped =>
    /\ \A n, m \in 1..Len(direct.groups) :
         n # m => Members(direct.groups[n]) \cap Members(direct.groups[m]) = {}
    /\ \A n \in 1..Len(direct.groups) :
         Cardinality(Members(direct.groups[n])) = Len(direct.groups[n].group)
    /\ \A k \in 1..Len(direct.images) :
         direct.images[k].analysis.pHash = <<>> =>
           \A n \in 1..Len(direct.groups) :
             direct.images[k].id \notin Members(direct.groups[n])

\* two groups have been emitted for a list that also holds an image without
\* a hash
GroupsAreDisjointWitness ==
  /\ Grouped
  /\ Len(direct.groups) = 2
  /\ \E k \in 1..Len(direct.images) : direct.images[k].analysis.pHash = <<>>

(***************************************************************************)
(* The perceptual hash on colour samples.  generatePHash adds               *)
(* (r + g + b) / 3 of the 32 x 32 samples into a running total of number   *)
(* type, divides by the sample count and compares every sample with the    *)
(* quotient.  The numbers are binary floating point: every quotient and    *)
(* every sum is rounded to the nearest value of MantissaBits significant   *)
(* bits, ties to even (53 bits in the code; whole numbers up to 255 * 1024 *)
(* stay exact here as they do there).  A value is m * 2^e with             *)
(* 2^(MantissaBits-1) <= m < 2^MantissaBits, or m = 0.                     *)
(***************************************************************************)
CanvasSide == 32
MantissaBits == 19

RECURSIVE Pow2(_)
Pow2(k) == IF k = 0 THEN 1 ELSE 2 * Pow2(k - 1)

FloatZero == [m |-> 0, e |-> 0]

\* m plus the fraction r / den at exponent e, rounded to nearest, ties to even
RoundFrac(m, r, den, e) ==
  LET up == 2 * r > den \/ (2 * r = den /\ m % 2 = 1)
      n  == IF up THEN m + 1 ELSE m
  IN IF n = Pow2(MantissaBits) THEN [m |-> Pow2(MantissaBits - 1), e |-> e + 1]
                               ELSE [m |-> n, e |-> e]

\* the float nearest to (num / den) * 2^e
RECURSIVE ToFloat(_, _, _)
ToFloat(num, den, e) ==
  IF num = 0 THEN FloatZero
  ELSE IF num \div den >= Pow2(MantissaBits) THEN ToFloat(num, 2 * den, e + 1)
  ELSE IF num \div den < Pow2(MantissaBits - 1) THEN ToFloat(2 * num, den, e - 1)
  ELSE RoundFrac(num \div den, num % den, den, e)

\* a + b
FloatAdd(a, b) ==
  IF a.m = 0 THEN b
  ELSE IF b.m = 0 THEN a
  ELSE LET hi == IF a.e >= b.e THEN a ELSE b
           lo == IF a.e >= b.e THEN b ELSE a
           d  == hi.e - lo.e
           q  == lo.m \div Pow2(d)
           r  == lo.m % Pow2(d)
           M  == hi.m + q
       IN IF M < Pow2(MantissaBits)
            THEN RoundFrac(M, r, Pow2(d), hi.e)
            ELSE RoundFrac(M \div 2, (M % 2) * Pow2(d) + r, Pow2(d + 1), hi.e + 1)

\* a / n for a whole number n
FloatDiv(a, n) == ToFloat(a.m, n, a.e)

\* a > b, both non-negative
FloatGreater(a, b) ==
  IF a.m = 0 THEN FALSE
  ELSE IF b.m = 0 THEN TRUE
  ELSE IF a.e # b.e THEN a.e > b.e
  ELSE a.m > b.m

\* (r + g + b) / 3 of a sample whose channels add up to sum
Brightness(sum) == ToFloat(sum, 3, 0)

\* total += brightness, sample after sample in row-major order
RECURSIVE AddSamples(_, _, _, _)
AddSamples(total, sums, i, last) ==
  IF i > last THEN total
  ELSE CHOOSE r \in {AddSamples(next, sums, i + 1, last) :
                       next \in {FloatAdd(total, Brightness(sums[i]))}} : TRUE

RECURSIVE AddRows(_, _, _)
AddRows(total, sums, row) ==
  IF row > CanvasSide THEN total
  ELSE CHOOSE r \in {AddRows(next, sums, row + 1) :
                       next \in {AddSamples(total, sums, (row - 1) * CanvasSide + 1,
                                            row * CanvasSide)}} : TRUE

\* the hash of a canvas given by the channel sums r + g + b of its samples
PHashOfCanvas(sums) ==
  LET average == FloatDiv(AddRows(FloatZero, sums, 1), Len(sums))
  IN [i \in 1..Len(sums) |-> IF FloatGreater(Brightness(sums[i]), average) THEN 1 ELSE 0]

MaxUniformSum == 47

\* canvases of one colour, and canvases of two colours in rows, columns,
\* halves and a single bright sample
CanvasInputs ==
  {[i \in 1..(CanvasSide * CanvasSide) |-> s] : s \in 0..MaxUniformSum}
  \cup {[i \in 1..(CanvasSide * CanvasSide) |-> IF i = 1 THEN 765 ELSE 0],
        [i \in 1..(CanvasSide * CanvasSide) |-> IF i % 2 = 0 THEN 450 ELSE 90],
        [i \in 1..(CanvasSide * CanvasSide) |-> IF i <= CanvasSide THEN 4 ELSE 3],
        [i \in 1..(CanvasSide * CanvasSide) |-> IF 2 * i <= CanvasSide * CanvasSide THEN 1 ELSE 764],
        [i \in 1..(CanvasSide * CanvasSide) |-> IF i = CanvasSide * CanvasSide THEN 1 ELSE 2],
        [i \in 1..(CanvasSide * CanvasSide) |-> 765]}

HashInit ==
  /\ Init!1 /\ Init!2 /\ Init!3 /\ Init!4 /\ Init!5 /\ Init!6 /\ Init!7 /\ Init!8
  /\ Init!9 /\ Init!10 /\ Init!11 /\ Init!12 /\ Init!13 /\ Init!14 /\ Init!15
  /\ Init!16 /\ Init!18
  /\ \E sums \in CanvasInputs : direct = [pc |-> "canvas", sums |-> sums, hash |-> <<>>]

HashCall ==
  /\ direct.pc = "canvas"
  /\ direct' = [direct EXCEPT !.pc = "hashed", !.hash = PHashOfCanvas(direct.sums)]
  /\ UNCHANGED engineVars
  /\ UNCHANGED hookVars

HashSpec == HashInit /\ [][HashCall]_vars

Hashed == direct.pc = "hashed"

\* the sum of the channel sums of all samples, in whole numbers
ExactTotal(sums) ==
  SumSeq([row \in 1..CanvasSide |->
            SumSeq(SubSeq(sums, (row - 1) * CanvasSide + 1, row * CanvasSide))])

UniformCanvas(sums) == \A i \in 1..Len(sums) : sums[i] = sums[1]

\* C35: the perceptual hash has exactly 1024 characters, each '0' or '1', in
\* row-major order of the 32 x 32 samples; a bit is '1' exactly where the
\* sample's luminance is strictly greater than the mean luminance of all
\* samples, so an image of one colour hashes to all zeros.
PHashIsAboveMean ==
  Hashed =>
    /\ Len(direct.hash) = FullHashLength
    /\ LET total == ExactTotal(direct.sums)
       IN \A i \in 1..Len(direct.hash) :
            /\ direct.hash[i] \in {0, 1}
            /\ direct.hash[i] = 1 <=> direct.sums[i] * Len(direct.sums) > total
    /\ UniformCanvas(direct.sums) => \A i \in 1..Len(direct.hash) : direct.hash[i] = 0

\* C36: a cancelled run never resumes: when processImages starts a new run
\* after stopProcessing and before the cancelled run's analysis in flight has
\* returned, the cancelled run's loop analyses no further image once that
\* analysis returns.
CancelledRunNeverResumes ==
  [][\A i \in 1..Len(runs) :
       (Settles(i) /\ Cancelled(i) /\ Len(runs) > i) => runs'[i].pc # "inflight"]_vars

(***************************************************************************)
(* Scenario: runs that follow a completed run.  The first run has          *)
(* processed two copies of one picture on an engine whose classifier is    *)
(* loaded; its call has returned, so no frame of it is left.  The          *)
(* controller it left in abortControllerRef is replaced by the next run    *)
(* before anything reads it, and is written as null.                       *)
(***************************************************************************)
ClassifierLoaded == [loaded |-> {"classifier"}, failed |-> {}]

\* the image as the try block of the first run has left it
AnalysedImage(img) ==
  LET r == [NewFrame EXCEPT !.list = <<img>>]
      h == [images |-> <<img>>, progress |-> <<>>, stats |-> <<>>,
            suggestions |-> <<>>, isProcessing |-> TRUE, run |-> r]
      a == analyze(img.file, defaultAiSettings, ClassifierLoaded, FALSE)
  IN RecordSuccess(h, a).images[1]

AfterFirstRun ==
  [k \in 1..2 |-> AnalysedImage(NewImage(k, "IMG_1.jpg"))]

RepeatInit ==
  /\ images = AfterFirstRun
  /\ progress = [current |-> 2, total |-> 2, status |-> "complete", stage |-> "complete"]
  /\ stats = [total |-> 2, processed |-> 2, successful |-> 2, errors |-> 0,
              categorized |-> [NoCategorized EXCEPT !["nature"] = 2],
              avgProcessingTime |-> [num |-> 4, den |-> 2], ended |-> TRUE]
  /\ suggestions = <<>>
  /\ isProcessing = FALSE
  /\ organizeOptions = DEFAULT_ORGANIZE_OPTIONS
  /\ abortRef = 0
  /\ aborted = {}
  /\ runs = <<>>
  /\ nextId = 3
  /\ isReady = TRUE
  /\ models = ClassifierLoaded
  /\ ssdLoaded = FALSE
  /\ inits = <<>>
  /\ terminating = 0
  /\ engineCalls = 1
  /\ direct = NoCall
  /\ initializedSince = TRUE

RepeatNext ==
  \/ addImages(<<"IMG_1.jpg">>)
  \/ processImages
  \/ \E i \in 1..MaxRuns : AnalysisSettles(i)
  \/ stopProcessing
  \/ \E options \in OptionChoices : setOrganizeOptions(options)
  \/ \E k \in 1..MaxImages : SuggestionAction(k)

RepeatSpec == RepeatInit /\ [][RepeatNext]_vars

\* the set of image ids of the k-th suggestion
IdsOf(k) == {suggestions[k].imageIds[n] : n \in 1..Len(suggestions[k].imageIds)}

\* C37: across any sequence of completed runs the suggestions never hold two
\* merge suggestions for the same set of image ids: a duplicate group
\* reported by one run is not reported again by a later run.
NoRepeatedSuggestion ==
  \A j, k \in 1..Len(suggestions) :
    (j # k /\ suggestions[j].type = "merge" /\ suggestions[k].type = "merge")
      => IdsOf(j) # IdsOf(k)

\* C38: after every statistics update of a run, stats.avgProcessingTime is a
\* well-defined (non-zero denominator), non-negative number, and it is the
\* mean processing time of the images of the run that succeeded so far,
\* also when the first images of the run fail and none has succeeded yet.
AverageIsMeanOfSuccesses ==
  [][/\ stats'.avgProcessingTime.den > 0
     /\ stats'.avgProcessingTime.num >= 0
     /\ \A i \in 1..Len(runs) :
          Settles(i) =>
            LET f  == runs[i].list[runs[i].idx].file
                ok == Decodes(f)
                n  == runs[i].successful + (IF ok THEN 1 ELSE 0)
                t  == runs[i].timeSum + (IF ok THEN Elapsed(f) ELSE 0)
            IN n > 0 => stats'.avgProcessingTime.num * n = t * stats'.avgProcessingTime.den]_vars

\* the counts of a categorized record, added up over the categories of S
RECURSIVE CountOver(_, _)
CountOver(categorized, S) ==
  IF S = {} THEN 0
  ELSE LET c == CHOOSE x \in S : TRUE
       IN categorized[c] + CountOver(categorized, S \ {c})

\* C40: after every statistics update of a run the per-category counts sum
\* to stats.successful: an image analysed successfully is counted in exactly
\* one category, a failed image in none.
CategoryCountsSumToSuccessful ==
  [][/\ CountOver(stats'.categorized, Categories) = stats'.successful
     /\ \A i \in 1..Len(runs) :
          Settles(i) =>
            LET f == runs[i].list[runs[i].idx].file
            IN IF Decodes(f)
                 THEN \E c \in Categories :
                        stats'.categorized = [runs[i].categorized EXCEPT ![c] = @ + 1]
                 ELSE stats'.categorized = runs[i].categorized]_vars

\* a run has published statistics with a failed and a successful image
CategoryCountsWitness ==
  /\ stats.errors >= 1
  /\ stats.successful >= 1
  /\ \E c \in Categories : stats.categorized[c] = stats.successful
  /\ stats.processed = stats.total

====
